---- MODULE Spec2Model ----
\* Model of the session store of tjes_pje_mcp (SessionManager, session_manager.py):
\* the three session artifacts on disk, the JSON metadata file, the wall clock,
\* and the operations that read, write, touch and clear the session.
\* Also the certificate manager (CertificateManager, cert_manager.py) with its
\* two ways of loading a certificate, and the server's session tools and
\* query tools (server.py).
EXTENDS Integers, Sequences, FiniteSets, TLC

-----------------------------------------------------------------------------
\* Bounds of the model.

\* The clock runs from 0 to MaxTime; one tick is one hour.
MaxTime == 3
\* Largest max_session_age_hours a store is constructed with.
MaxAgeHours == 2
\* Largest clock reading, in hours, a certificate is described or validated at.
MaxHours == 150
\* Largest number of temporary files created in a run.
MaxTempFiles == 4
\* Largest number of digits in a process number passed for validation.
MaxDigits == 22

Times == 0..MaxTime

-----------------------------------------------------------------------------
\* Python values held in a metadata dict. A value is [ty, s]: its Python type
\* and its printed form. A dict is a sequence of <<key, value>> pairs in
\* insertion order, with unique keys.

PyStr(s) == [ty |-> "str", s |-> s]
PyInt(s) == [ty |-> "int", s |-> s]
PyObj(s) == [ty |-> "object", s |-> s]
PyTuple(s) == [ty |-> "tuple", s |-> s]
PyNone == [ty |-> "NoneType", s |-> "None"]

\* Python truthiness of a value (if not created_at, if username).
Truthy(v) ==
    ~ \/ v.ty = "NoneType"
      \/ (v.ty \in {"str", "tuple", "list"} /\ v.s = "")
      \/ (v.ty = "int" /\ v.s = "0")

DictKeys(d) == {d[i][1] : i \in DOMAIN d}

\* d.get(k): the value stored under k, None when k is not a key.
DictGet(d, k) ==
    IF \E i \in DOMAIN d : d[i][1] = k
    THEN d[CHOOSE i \in DOMAIN d : d[i][1] = k][2]
    ELSE PyNone

\* d[k] = v: replaces the value in place, or appends a new key.
DictSet(d, k, v) ==
    IF \E i \in DOMAIN d : d[i][1] = k
    THEN [i \in DOMAIN d |-> IF d[i][1] = k THEN <<k, v>> ELSE d[i]]
    ELSE Append(d, <<k, v>>)

\* d.update(e)
RECURSIVE DictUpdate(_, _)
DictUpdate(d, e) ==
    IF e = <<>> THEN d
    ELSE DictUpdate(DictSet(d, e[1][1], e[1][2]), Tail(e))

\* d1 == d2 for dicts: same keys, same values, whatever the order.
DictEq(d1, d2) ==
    /\ DictKeys(d1) = DictKeys(d2)
    /\ \A k \in DictKeys(d1) : DictGet(d1, k) = DictGet(d2, k)

-----------------------------------------------------------------------------
\* datetime.isoformat() and datetime.fromisoformat().

isoformat(t) == "T" \o ToString(t)

\* fromisoformat accepts a str in ISO format and raises on anything else.
IsIsoFormat(v) == v.ty = "str" /\ \E t \in Times : isoformat(t) = v.s

fromisoformat(v) == CHOOSE t \in Times : isoformat(t) = v.s

-----------------------------------------------------------------------------
\* json.dump / json.load on the metadata file. The text of the file is a
\* sequence of tokens.

LBrace == [ty |-> "{", s |-> ""]
RBrace == [ty |-> "}", s |-> ""]
KeyTok(s) == [ty |-> "key", s |-> s]

\* json accepts str, int and None keys and writes each as a string.
KeySerializable(k) == k.ty \in {"str", "int", "NoneType"}
EncodeKey(k) == KeyTok(IF k.ty = "NoneType" THEN "null" ELSE k.s)

\* json writes str, int, None, and a tuple as an array; any other object
\* raises TypeError.
ValueSerializable(v) == v.ty \in {"str", "int", "NoneType", "tuple", "list"}
EncodeValue(v) ==
    CASE v.ty = "str" -> [ty |-> "string", s |-> v.s]
      [] v.ty = "int" -> [ty |-> "number", s |-> v.s]
      [] v.ty = "NoneType" -> [ty |-> "null", s |-> ""]
      [] OTHER -> [ty |-> "array", s |-> v.s]

DecodeValue(tok) ==
    CASE tok.ty = "string" -> PyStr(tok.s)
      [] tok.ty = "number" -> PyInt(tok.s)
      [] tok.ty = "null" -> PyNone
      [] OTHER -> [ty |-> "list", s |-> tok.s]

\* The chunks json.dump writes for the items of a dict, in order. It stops at
\* the first key or value it cannot serialize: a bad key before anything of
\* that item is written, a bad value after the key is written.
RECURSIVE EncodeItems(_)
EncodeItems(d) ==
    IF d = <<>> THEN [toks |-> <<>>, raised |-> FALSE]
    ELSE LET k == d[1][1]
             v == d[1][2]
         IN  IF ~KeySerializable(k) THEN [toks |-> <<>>, raised |-> TRUE]
             ELSE IF ~ValueSerializable(v)
                  THEN [toks |-> <<EncodeKey(k)>>, raised |-> TRUE]
                  ELSE LET rest == EncodeItems(Tail(d))
                       IN  [toks |-> <<EncodeKey(k), EncodeValue(v)>> \o rest.toks,
                            raised |-> rest.raised]

\* json.dump(metadata, f): the text written and whether TypeError was raised.
json_dump(metadata) ==
    LET enc == EncodeItems(metadata)
    IN  IF enc.raised
        THEN [toks |-> <<LBrace>> \o enc.toks, raised |-> TRUE]
        ELSE [toks |-> <<LBrace>> \o enc.toks \o <<RBrace>>, raised |-> FALSE]

\* The text is one complete JSON object.
IsJsonObject(text) ==
    /\ Len(text) >= 2
    /\ text[1] = LBrace
    /\ text[Len(text)] = RBrace
    /\ (Len(text) - 2) % 2 = 0
    /\ \A i \in 2..(Len(text) - 1) :
          IF i % 2 = 0 THEN text[i].ty = "key"
          ELSE text[i].ty \in {"string", "number", "null", "array"}

\* The dict json.load builds from the tokens between the braces: keys are
\* strings, a repeated key keeps its last value.
RECURSIVE DecodeItems(_, _)
DecodeItems(toks, acc) ==
    IF toks = <<>> THEN acc
    ELSE DecodeItems(Tail(Tail(toks)),
                     DictSet(acc, PyStr(toks[1].s), DecodeValue(toks[2])))

json_load(text) == DecodeItems(SubSeq(text, 2, Len(text) - 1), <<>>)

\* The text is one complete JSON document that is not an object: an array,
\* a string, a number or null. json.load accepts it and returns the value.
IsJsonValue(text) ==
    /\ Len(text) = 1
    /\ text[1].ty \in {"string", "number", "null", "array"}

-----------------------------------------------------------------------------
\* State.

VARIABLES
    now,              \* datetime.now(), in ticks
    max_session_age,  \* self.max_session_age, in ticks
    cookies_file,     \* cookies.json exists
    state_file,       \* state.json exists
    metadata_file,    \* metadata.json: [exists, text]
    last_op,          \* the last operation that ran and whether it raised
    writer,           \* a save_session_metadata in progress, step by step
    clearer,          \* a clear_session in progress, step by step
    reader,           \* what a concurrent reader last saw
    manager,          \* a CertificateManager: the fields __init__ sets
    platform,         \* sys.platform, pywin32 and the Windows certificate store
    cred_op,          \* the last certificate operation and how it ended
    cert_manager,     \* the server's global cert_manager
    cert_files,       \* the server's global cert_files
    last_request,     \* the last request fazer_requisicao_pje sent
    logged_in,        \* a browser login has completed for the stored session
    tmpdir,           \* the temporary files created so far, in order of creation
    calc,             \* the last call of a function on given arguments, and its result
    session_names,    \* the session_name of each of two stores over one session_dir
    disk,             \* the session directories under that session_dir and their files
    toucher,          \* an update_last_used in progress, step by step
    request           \* a fazer_requisicao_pje in progress, attempt by attempt

sessionVars == <<now, max_session_age, cookies_file, state_file, metadata_file, last_op>>
concVars == <<writer, clearer, reader>>
credVars == <<manager, platform, cred_op>>
serverVars == <<cert_manager, cert_files, last_request, logged_in>>
toolVars == <<tmpdir, calc>>
moreVars == <<session_names, disk, toucher, request>>
restVars == <<credVars, serverVars, toolVars, moreVars>>
vars == <<sessionVars, concVars, restVars>>

\* No certificate, no key (None).
NoCertificate == [subject |-> "", not_valid_before |-> 0, not_valid_after |-> 0]
NoKey == ""

\* CertificateManager(cert_type): nothing loaded.
NewManager(cert_type) ==
    [cert_type |-> cert_type, certificate |-> NoCertificate, private_key |-> NoKey,
     additional_certs |-> <<>>, cert_path |-> ""]

\* The record of a certificate operation: what was called and the kind of
\* exception it ended with ("ok" for a normal return).
CredOp(name, kind, path, password, thumbprint) ==
    [op |-> name, kind |-> kind, path |-> path, password |-> password,
     thumbprint |-> thumbprint]
NoCredOp == CredOp("none", "ok", "", "", "")

\* cert_manager = None: a manager of no type.
NoManager == NewManager("")
\* cert_files = None
NoCertFiles == <<>>
NoRequest == [sent |-> FALSE, at |-> 0, certificate |-> NoCertificate]

\* No function called yet.
NoCalc == [fn |-> "none"]

\* No second store, and no call in progress.
NoNames == <<>>
NoDisk == <<>>
ToucherIdle == [pc |-> "idle", metadata |-> [ty |-> "NoneType", items |-> <<>>]]
NoCall ==
    [pc |-> "idle", stop |-> 0, attempts |-> 0, sent |-> 0, outcome |-> "none",
     status |-> 0, cause |-> ""]

MoreIdle ==
    /\ session_names = NoNames
    /\ disk = NoDisk
    /\ toucher = ToucherIdle
    /\ request = NoCall

\* The values of the variables the session store does not touch.
RestIdle ==
    /\ manager = NewManager("A1")
    /\ platform = [os |-> "linux", pywin32 |-> FALSE, store |-> NoCertificate]
    /\ cred_op = NoCredOp
    /\ cert_manager = NoManager
    /\ cert_files = NoCertFiles
    /\ last_request = NoRequest
    /\ logged_in = FALSE
    /\ tmpdir = <<>>
    /\ calc = NoCalc
    /\ MoreIdle

NoFile == [exists |-> FALSE, text |-> <<>>]
File(text) == [exists |-> TRUE, text |-> text]

session_name == PyStr("tjes_pje_default")

\* What a reader of get_session_metadata gets: [ty |-> "NoneType"] for None,
\* [ty |-> "dict", items |-> d] for a dict.
NoMetadata == [ty |-> "NoneType", items |-> <<>>]
Metadata(d) == [ty |-> "dict", items |-> d]
\* Any other value json.load returns (list, str, int): its type, and the
\* value itself as its content when it is truthy.
NonMapping(v) ==
    IF v.ty = "NoneType" THEN NoMetadata
    ELSE [ty |-> v.ty, items |-> IF Truthy(v) THEN <<v>> ELSE <<>>]

\* get_session_metadata on a given file: whatever json.load returns, None
\* when the file is missing or json.load raises.
ReadMetadata(file) ==
    IF ~file.exists THEN NoMetadata
    ELSE IF IsJsonObject(file.text) THEN Metadata(json_load(file.text))
    ELSE IF IsJsonValue(file.text) THEN NonMapping(DecodeValue(file.text[1]))
    ELSE NoMetadata

get_session_metadata == ReadMetadata(metadata_file)

\* not metadata: None, an empty dict, or any other falsy value.
MetadataFalsy(md) == md.ty = "NoneType" \/ md.items = <<>>

\* metadata.get('created_at') outside the try block of is_session_expired:
\* AttributeError when the truthy value read is not a dict.
ExpiredRaises(file) ==
    LET metadata == ReadMetadata(file)
    IN  ~MetadataFalsy(metadata) /\ metadata.ty # "dict"

\* Fault variant of AgeExceeds: a session is expired already at age = max age.
AgeExceedsAtLimit(age, max_age) == age >= max_age

\* age > self.max_session_age
AgeExceeds(age, max_age) == age > max_age

\* Fault variant of IsExpired: the age is counted from last_used.
IsExpiredSinceLastUsed(file, t, max_age) ==
    LET metadata == ReadMetadata(file)
        last_used == DictGet(metadata.items, PyStr("last_used"))
    IN  IF MetadataFalsy(metadata) THEN TRUE
        ELSE IF ~IsIsoFormat(last_used) THEN TRUE
        ELSE t - fromisoformat(last_used) > max_age

\* is_session_expired on a given file at a given time. When the call raises
\* (ExpiredRaises) nothing is returned; the operator is then TRUE.
IsExpired(file, t, max_age) ==
    LET metadata == ReadMetadata(file)
        created_at == DictGet(metadata.items, PyStr("created_at"))
    IN  IF MetadataFalsy(metadata) THEN TRUE
        ELSE IF metadata.ty # "dict" THEN TRUE
        ELSE IF ~Truthy(created_at) THEN TRUE
        ELSE IF ~IsIsoFormat(created_at) THEN TRUE
        ELSE AgeExceeds(t - fromisoformat(created_at), max_age)

is_session_expired == IsExpired(metadata_file, now, max_session_age)

session_exists == metadata_file.exists

\* Fault variant of SessionInfo: unreadable metadata is not counted as expired.
SessionInfoTrustingFile(file, t, max_age) ==
    LET exists == file.exists
        expired == IF exists /\ ReadMetadata(file).ty = "dict"
                   THEN IsExpired(file, t, max_age) ELSE ~exists
    IN  [exists |-> exists, expired |-> expired, valid |-> exists /\ ~expired]

\* get_session_info on a given file at a given time: the exists, expired
\* and valid fields.
SessionInfo(file, t, max_age) ==
    LET exists == file.exists
        expired == IF exists THEN IsExpired(file, t, max_age) ELSE TRUE
    IN  [exists |-> exists, expired |-> expired, valid |-> exists /\ ~expired]

get_session_info == SessionInfo(metadata_file, now, max_session_age)

\* Fault variant of format_timedelta: every age is given in hours.
format_timedelta_in_hours(hours) == [n |-> hours, unit |-> "horas"]

\* int(x / y) for integers x and y > 0: the quotient truncated towards zero.
IntQuotient(x, y) == IF x >= 0 THEN x \div y ELSE -((-x) \div y)

\* Fault variant of format_timedelta_seconds: an age of exactly one hour, or
\* of exactly one day, stays in the smaller unit.
format_timedelta_seconds_late(seconds) ==
    IF seconds <= 3600 THEN [n |-> IntQuotient(seconds, 60), unit |-> "minutos"]
    ELSE IF seconds <= 24 * 3600 THEN [n |-> IntQuotient(seconds, 3600), unit |-> "horas"]
    ELSE [n |-> IntQuotient(seconds, 24 * 3600), unit |-> "dias"]

\* _format_timedelta on an age in seconds: the number and the unit of the
\* string f"{n} {unit}". hours = total_seconds() / 3600.
format_timedelta_seconds(seconds) ==
    IF seconds < 3600 THEN [n |-> IntQuotient(seconds, 60), unit |-> "minutos"]
    ELSE IF seconds < 24 * 3600 THEN [n |-> IntQuotient(seconds, 3600), unit |-> "horas"]
    ELSE [n |-> IntQuotient(seconds, 24 * 3600), unit |-> "dias"]

\* _format_timedelta on an age of whole hours.
format_timedelta(hours) == format_timedelta_seconds(hours * 3600)

\* A key get_session_info does not set.
NotSet == [ty |-> "not set", s |-> ""]
NoAge == [n |-> 0, unit |-> "not set"]

\* get_session_info on a given file at a given time: the auth_method and
\* age_human fields, set only when metadata was read.
InfoDetails(file, t) ==
    LET metadata == IF file.exists THEN ReadMetadata(file) ELSE Metadata(<<>>)
        created_at == DictGet(metadata.items, PyStr("created_at"))
    IN  IF MetadataFalsy(metadata) \/ metadata.ty # "dict"
        THEN [auth_method |-> NotSet, age_human |-> NoAge]
        ELSE [auth_method |-> IF PyStr("auth_method") \in DictKeys(metadata.items)
                              THEN DictGet(metadata.items, PyStr("auth_method"))
                              ELSE PyStr("unknown"),
              age_human |-> IF Truthy(created_at) /\ IsIsoFormat(created_at)
                            THEN format_timedelta(t - fromisoformat(created_at))
                            ELSE NoAge]

\* get_session_info raises what is_session_expired raises; it calls it only
\* when the session exists.
InfoRaises(file) == file.exists /\ ExpiredRaises(file)

\* The three-way classification the session info is rendered with
\* (format_session_info_detailed): valid, exists and expired, or not found.
Classify(info) ==
    IF info.valid THEN "Valid"
    ELSE IF info.exists /\ info.expired THEN "Expired"
    ELSE "Absent"

classify == Classify(get_session_info)

-----------------------------------------------------------------------------
\* Operations of the session store.

\* create_session_metadata, called when the clock reads t_created and then
\* t_used (two calls of datetime.now()).
create_session_metadata(t_created, t_used, auth_method, username, additional_data) ==
    LET fixed == << <<PyStr("created_at"), PyStr(isoformat(t_created))>>,
                    <<PyStr("last_used"), PyStr(isoformat(t_used))>>,
                    <<PyStr("auth_method"), auth_method>>,
                    <<PyStr("session_name"), session_name>> >>
        named == IF Truthy(username)
                 THEN DictSet(fixed, PyStr("username"), username)
                 ELSE fixed
    IN  IF additional_data # <<>> THEN DictUpdate(named, additional_data) ELSE named

\* Fault variant of SavedFile: the file is opened for appending.
SavedFileAppended(metadata) == File(metadata_file.text \o json_dump(metadata).toks)

\* The metadata file save_session_metadata leaves: open(..., 'w') creates or
\* truncates it, json.dump writes what it can, and the TypeError of an
\* unserializable dict is caught and logged.
SavedFile(metadata) == File(json_dump(metadata).toks)

\* Fault variant of TouchedFile: the touch also restarts created_at.
TouchedFileRestarted(file, t) ==
    LET metadata == ReadMetadata(file)
        touched == DictSet(metadata.items, PyStr("last_used"), PyStr(isoformat(t)))
    IN  IF ~MetadataFalsy(metadata)
        THEN File(json_dump(DictSet(touched, PyStr("created_at"), PyStr(isoformat(t)))).toks)
        ELSE file

\* Fault variant of TouchedFile: the touch writes without checking that
\* metadata was read.
TouchedFileUnchecked(file, t) ==
    File(json_dump(DictSet(ReadMetadata(file).items, PyStr("last_used"),
                           PyStr(isoformat(t)))).toks)

\* metadata['last_used'] = ... in update_last_used: TypeError when the truthy
\* value read is a list, a str or an int.
TouchRaises(file) ==
    LET metadata == ReadMetadata(file)
    IN  ~MetadataFalsy(metadata) /\ metadata.ty # "dict"

\* The metadata file update_last_used leaves at time t.
TouchedFile(file, t) ==
    LET metadata == ReadMetadata(file)
    IN  IF ~MetadataFalsy(metadata) /\ metadata.ty = "dict"
        THEN SavedFile(DictSet(metadata.items, PyStr("last_used"), PyStr(isoformat(t))))
        ELSE file

\* Fault variant of ClearedArtifacts: state.json is not removed.
ClearedArtifactsKeepingState(cookies, state, metadata) ==
    [cookies |-> FALSE, state |-> state, metadata |-> NoFile]

\* Fault variant of ClearedArtifacts: metadata.json is not removed.
ClearedArtifactsKeepingMetadata(cookies, state, metadata) ==
    [cookies |-> FALSE, state |-> FALSE, metadata |-> metadata]

\* The artifacts clear_session leaves, given the ones it found.
ClearedArtifacts(cookies, state, metadata) ==
    [cookies |-> FALSE, state |-> FALSE, metadata |-> NoFile]

\* What the last operation found when it started (kept for touch and clear).
Snapshot ==
    [cookies |-> cookies_file, state |-> state_file, metadata |-> metadata_file,
     class |-> classify]
NoSnapshot ==
    [cookies |-> FALSE, state |-> FALSE, metadata |-> NoFile, class |-> "Absent"]

\* The record of an operation that returned normally.
Op(name, arg, before) ==
    [op |-> name, raised |-> FALSE, arg |-> arg, before |-> before]

save_session_metadata(metadata) ==
    /\ metadata_file' = SavedFile(metadata)
    /\ last_op' = Op("save", metadata, NoSnapshot)
    /\ UNCHANGED <<restVars, now, max_session_age, cookies_file, state_file, concVars>>

update_last_used ==
    /\ metadata_file' = TouchedFile(metadata_file, now)
    /\ last_op' = [Op("touch", <<>>, Snapshot) EXCEPT !.raised = TouchRaises(metadata_file)]
    /\ UNCHANGED <<restVars, now, max_session_age, cookies_file, state_file, concVars>>

clear_session ==
    LET left == ClearedArtifacts(cookies_file, state_file, metadata_file)
    IN  /\ cookies_file' = left.cookies
        /\ state_file' = left.state
        /\ metadata_file' = left.metadata
        /\ last_op' = Op("clear", <<>>, Snapshot)
        /\ UNCHANGED <<restVars, now, max_session_age, concVars>>

\* The browser driver, rooted at the session directory
\* (get_playwright_persistent_context_config), stores cookies and state.
BrowserStores ==
    /\ \E c \in BOOLEAN, s \in BOOLEAN :
          /\ (c \/ s)
          /\ cookies_file' = (cookies_file \/ c)
          /\ state_file' = (state_file \/ s)
    /\ last_op' = Op("browser", <<>>, NoSnapshot)
    /\ UNCHANGED <<restVars, now, max_session_age, metadata_file, concVars>>

\* save_session_metadata when the filesystem refuses the write: mkdir or open
\* raises and the file is left as it was, or the write stops after some of
\* the text. The exception is caught and logged.
save_session_metadata_failing(metadata) ==
    /\ \/ metadata_file' = metadata_file
       \/ \E n \in 0..(Len(json_dump(metadata).toks) - 1) :
             metadata_file' = File(SubSeq(json_dump(metadata).toks, 1, n))
    /\ last_op' = Op("save_failed", metadata, NoSnapshot)
    /\ UNCHANGED <<restVars, now, max_session_age, cookies_file, state_file, concVars>>

\* A caller asks for get_session_info: the fields returned, or the exception.
describe ==
    /\ last_op' = IF InfoRaises(metadata_file)
                  THEN [Op("describe", <<>>, NoSnapshot) EXCEPT !.raised = TRUE]
                  ELSE Op("describe",
                          [exists |-> get_session_info.exists,
                           expired |-> get_session_info.expired,
                           valid |-> get_session_info.valid,
                           auth_method |-> InfoDetails(metadata_file, now).auth_method,
                           age_human |-> InfoDetails(metadata_file, now).age_human],
                          NoSnapshot)
    /\ UNCHANGED <<restVars, now, max_session_age, cookies_file, state_file,
                   metadata_file, concVars>>

\* The wall clock advances.
Tick ==
    /\ now < MaxTime
    /\ now' = now + 1
    /\ last_op' = Op("tick", <<>>, NoSnapshot)
    /\ UNCHANGED <<restVars, max_session_age, cookies_file, state_file, metadata_file, concVars>>

-----------------------------------------------------------------------------
\* The steps of the operations, for callers that run concurrently (other
\* requests, other processes on the same session directory).

\* save_session_metadata, not started. buf is what json.dump produces, old
\* the file found at open, linked whether the open file is still the one
\* the path names.
WriterIdle ==
    [pc |-> "idle", buf |-> <<>>, new |-> <<>>, old |-> NoFile, linked |-> FALSE]

\* clear_session, not started. found is what was there when it started.
ClearerIdle == [pc |-> "idle", found |-> NoSnapshot]

\* What a reader saw: which artifacts exist, what get_session_metadata
\* returned, and what was under way when it looked.
NothingSeen ==
    [taken |-> FALSE, cookies |-> FALSE, state |-> FALSE, exists |-> FALSE,
     metadata |-> NoMetadata, writing |-> FALSE, clearing |-> FALSE,
     written |-> FALSE]

\* open(self.metadata_file, 'w'): the file is created, or truncated to
\* nothing, before anything is written.
WriterOpen(metadata) ==
    /\ writer.pc = "idle"
    /\ metadata_file' = File(<<>>)
    /\ writer' = [pc |-> "open", buf |-> json_dump(metadata).toks, new |-> metadata,
                  old |-> metadata_file, linked |-> TRUE]
    /\ UNCHANGED <<restVars, now, max_session_age, cookies_file, state_file, last_op,
                   clearer, reader>>

\* json.dump writes chunk by chunk: a part of the text reaches the file
\* before the rest.
WriterFlush ==
    /\ writer.pc = "open"
    /\ writer.linked
    /\ \E n \in (Len(metadata_file.text) + 1)..(Len(writer.buf) - 1) :
          metadata_file' = File(SubSeq(writer.buf, 1, n))
    /\ UNCHANGED <<restVars, now, max_session_age, cookies_file, state_file, last_op,
                   writer, clearer, reader>>

\* Leaving the with block closes the file: everything json.dump produced is
\* in it. A file unlinked since the open stays unlinked.
WriterClose ==
    /\ writer.pc = "open"
    /\ metadata_file' = IF writer.linked THEN File(writer.buf) ELSE metadata_file
    /\ writer' = [writer EXCEPT !.pc = "done"]
    /\ UNCHANGED <<restVars, now, max_session_age, cookies_file, state_file, last_op,
                   clearer, reader>>

\* if self.cookies_file.exists(): self.cookies_file.unlink()
ClearCookies ==
    /\ clearer.pc = "idle"
    /\ cookies_file' = FALSE
    /\ clearer' = [pc |-> "state", found |-> Snapshot]
    /\ UNCHANGED <<restVars, now, max_session_age, state_file, metadata_file, last_op,
                   writer, reader>>

\* if self.state_file.exists(): self.state_file.unlink()
ClearState ==
    /\ clearer.pc = "state"
    /\ state_file' = FALSE
    /\ clearer' = [clearer EXCEPT !.pc = "metadata"]
    /\ UNCHANGED <<restVars, now, max_session_age, cookies_file, metadata_file, last_op,
                   writer, reader>>

\* if self.metadata_file.exists(): self.metadata_file.unlink()
ClearMetadata ==
    /\ clearer.pc = "metadata"
    /\ metadata_file' = NoFile
    /\ clearer' = [clearer EXCEPT !.pc = "done"]
    /\ writer' = [writer EXCEPT !.linked = FALSE]
    /\ UNCHANGED <<restVars, now, max_session_age, cookies_file, state_file, last_op, reader>>

\* A reader looks at the session directory and reads the metadata file
\* (get_session_info), while a write or a clear may be under way.
ReaderLooks ==
    /\ reader' = [taken |-> TRUE, cookies |-> cookies_file, state |-> state_file,
                  exists |-> metadata_file.exists,
                  metadata |-> get_session_metadata,
                  writing |-> (writer.pc = "open"),
                  written |-> (writer.pc # "idle"),
                  clearing |-> (clearer.pc \in {"state", "metadata"})]
    /\ UNCHANGED <<restVars, sessionVars, writer, clearer>>

-----------------------------------------------------------------------------
\* The callers' inputs.

\* Arguments callers give create_session_metadata: those of the server and
\* of the tests, and dicts of extras that json does not write back as given.
CreateArgs ==
    { [auth_method |-> PyStr("safe_id"), username |-> PyNone,
       additional_data |-> << <<PyStr("status"), PyStr("iniciando")>> >>],
      [auth_method |-> PyStr("test"), username |-> PyNone,
       additional_data |-> <<>>],
      [auth_method |-> PyStr("safe_id"), username |-> PyStr("teste@example.com"),
       additional_data |-> << <<PyStr("test"), PyStr("value")>> >>],
      [auth_method |-> PyStr("safe_id"), username |-> PyNone,
       additional_data |-> << <<PyInt("1"), PyStr("x")>> >>],
      [auth_method |-> PyStr("safe_id"), username |-> PyNone,
       additional_data |-> << <<PyStr("roles"), PyTuple("a,b")>> >>],
      [auth_method |-> PyStr("safe_id"), username |-> PyNone,
       additional_data |-> << <<PyStr("login_time"), PyObj("datetime")>>,
                              <<PyStr("status"), PyStr("ok")>> >>],
      [auth_method |-> PyStr("safe_id"), username |-> PyNone,
       additional_data |-> << <<PyStr("created_at"), PyStr("ontem")>> >>] }

\* The metadata a caller may hold at time t: built by create_session_metadata
\* now or earlier.
MetadataAt(t) ==
    { create_session_metadata(tc, tc, a.auth_method, a.username, a.additional_data) :
        tc \in 0..t, a \in CreateArgs }

WriteMetadata == \E metadata \in MetadataAt(now) : save_session_metadata(metadata)

\* The callers of the concurrent specification: the server's own call and one
\* with an extra json cannot write.
ConcurrentCreateArgs ==
    { a \in CreateArgs :
        \/ DictGet(a.additional_data, PyStr("status")) = PyStr("iniciando")
        \/ DictGet(a.additional_data, PyStr("login_time")) # PyNone }

\* Metadata built with these arguments at time t.
ConcurrentMetadataAt(t) ==
    { create_session_metadata(t, t, a.auth_method, a.username, a.additional_data) :
        a \in ConcurrentCreateArgs }

-----------------------------------------------------------------------------
\* The sequential specification: every operation runs to completion.

Init ==
    /\ now = 0
    /\ max_session_age \in 0..MaxAgeHours
    /\ cookies_file = FALSE
    /\ state_file = FALSE
    /\ metadata_file = NoFile
    /\ last_op = Op("init", <<>>, NoSnapshot)
    /\ writer = WriterIdle
    /\ clearer = ClearerIdle
    /\ reader = NothingSeen
    /\ RestIdle

Next ==
    \/ WriteMetadata
    \/ update_last_used
    \/ clear_session
    \/ BrowserStores
    \/ Tick

Spec == Init /\ [][Next]_vars

-----------------------------------------------------------------------------
\* The session store on a directory found in any condition: metadata.json may
\* have been left by another program, by hand, or by an interrupted write.

\* One token of JSON text.
JsonTok(ty, s) == [ty |-> ty, s |-> s]

\* Contents of metadata.json: missing; empty, cut short (not parseable); an
\* array, a string, a number, null, an empty array (parseable, not a mapping);
\* an empty mapping, a mapping without created_at, with a created_at that is
\* not a timestamp (a word, a number); a session saved at time 0.
ArtifactContents ==
    { NoFile,
      File(<<>>),
      File(<<LBrace, KeyTok("created_at")>>),
      File(<<JsonTok("array", "1")>>),
      File(<<JsonTok("string", "sessao")>>),
      File(<<JsonTok("number", "7")>>),
      File(<<JsonTok("null", "")>>),
      File(<<JsonTok("array", "")>>),
      File(<<LBrace, RBrace>>),
      File(<<LBrace, KeyTok("auth_method"), JsonTok("string", "safe_id"), RBrace>>),
      File(<<LBrace, KeyTok("created_at"), JsonTok("string", "ontem"), RBrace>>),
      File(<<LBrace, KeyTok("created_at"), JsonTok("number", "7"), RBrace>>) }
    \cup {SavedFile(m) : m \in ConcurrentMetadataAt(0)}

WriteMetadataFails ==
    \E metadata \in ConcurrentMetadataAt(now) : save_session_metadata_failing(metadata)

InitArtifact ==
    /\ now = 0
    /\ max_session_age \in 0..MaxAgeHours
    /\ cookies_file = FALSE
    /\ state_file = FALSE
    /\ metadata_file \in ArtifactContents
    /\ last_op = Op("init", <<>>, NoSnapshot)
    /\ writer = WriterIdle
    /\ clearer = ClearerIdle
    /\ reader = NothingSeen
    /\ RestIdle

NextArtifact ==
    \/ WriteMetadata
    \/ WriteMetadataFails
    \/ describe
    \/ update_last_used
    \/ clear_session
    \/ Tick

SpecArtifact == InitArtifact /\ [][NextArtifact]_vars

-----------------------------------------------------------------------------
\* The concurrent specification: one save_session_metadata, one clear_session
\* and a reader interleave step by step, from any state the directory can be
\* left in by completed operations.

\* A caller saves metadata it has just created.
WriteMetadataStarts == \E metadata \in ConcurrentMetadataAt(now) : WriterOpen(metadata)

\* The directory holds no session, or one saved at time 0.
InitConc ==
    /\ now \in Times
    /\ max_session_age = MaxAgeHours
    /\ cookies_file \in BOOLEAN
    /\ state_file \in BOOLEAN
    /\ metadata_file \in {NoFile} \cup {SavedFile(m) : m \in ConcurrentMetadataAt(0)}
    /\ last_op = Op("init", <<>>, NoSnapshot)
    /\ writer = WriterIdle
    /\ clearer = ClearerIdle
    /\ reader = NothingSeen
    /\ RestIdle

NextConc ==
    \/ WriteMetadataStarts
    \/ WriterFlush
    \/ WriterClose
    \/ ClearCookies
    \/ ClearState
    \/ ClearMetadata
    \/ ReaderLooks

SpecConc == InitConc /\ [][NextConc]_vars

-----------------------------------------------------------------------------
\* The session tools of the server (server.py): each handler builds the
\* default session manager and runs to completion; any exception is caught
\* and returned as text. The login itself happens in the browser.

\* pje_authenticate_safe_id: nothing to do when the session is valid;
\* otherwise metadata for a new session is created and saved at once.
pje_authenticate_safe_id ==
    LET metadata == create_session_metadata(now, now, PyStr("safe_id"), PyNone,
                        << <<PyStr("status"), PyStr("iniciando")>> >>)
    IN  /\ IF InfoRaises(metadata_file) \/ get_session_info.valid
           THEN /\ metadata_file' = metadata_file
                /\ last_op' = Op("authenticate", <<>>, Snapshot)
           ELSE /\ metadata_file' = SavedFile(metadata)
                /\ last_op' = Op("authenticate", metadata, Snapshot)
        /\ UNCHANGED <<now, max_session_age, cookies_file, state_file, concVars, restVars>>

\* pje_check_session: reports get_session_info.
pje_check_session ==
    /\ last_op' = Op("check", <<>>, Snapshot)
    /\ UNCHANGED <<now, max_session_age, cookies_file, state_file, metadata_file,
                   concVars, restVars>>

\* pje_clear_session: clear_session unless get_session_info says no session
\* exists. The session the login belonged to is gone.
pje_clear_session ==
    LET left == IF InfoRaises(metadata_file) \/ ~get_session_info.exists
                THEN [cookies |-> cookies_file, state |-> state_file,
                      metadata |-> metadata_file]
                ELSE ClearedArtifacts(cookies_file, state_file, metadata_file)
    IN  /\ cookies_file' = left.cookies
        /\ state_file' = left.state
        /\ metadata_file' = left.metadata
        /\ last_op' = Op("clear", <<>>, Snapshot)
        /\ logged_in' = (logged_in /\ left.metadata.exists)
        /\ UNCHANGED <<now, max_session_age, concVars, credVars, cert_manager,
                       cert_files, last_request, toolVars, moreVars>>

\* The user completes the login in the browser, which stores its cookies and
\* state in the session directory. Nothing in the program writes metadata
\* at that point.
BrowserLogin ==
    /\ cookies_file' = TRUE
    /\ state_file' = TRUE
    /\ logged_in' = TRUE
    /\ last_op' = Op("login", <<>>, Snapshot)
    /\ UNCHANGED <<now, max_session_age, metadata_file, concVars, credVars,
                   cert_manager, cert_files, last_request, toolVars, moreVars>>

NextSessionTools ==
    \/ pje_authenticate_safe_id
    \/ pje_check_session
    \/ pje_clear_session
    \/ BrowserLogin
    \/ Tick

SpecSessionTools == Init /\ [][NextSessionTools]_vars

-----------------------------------------------------------------------------
\* The certificate manager (CertificateManager, cert_manager.py): the held
\* certificate, key, intermediate certificates and source path, and the two
\* ways of loading them. Validity bounds are clock readings in ticks.

Cert(subject, not_valid_before, not_valid_after) ==
    [subject |-> subject, not_valid_before |-> not_valid_before,
     not_valid_after |-> not_valid_after]

\* The PKCS#12 files on disk. Each has the password it was exported with;
\* mac names the wording the decoder uses when the password check fails.
NoBundle ==
    [exists |-> FALSE, corrupt |-> FALSE, password |-> "", mac |-> "",
     certificate |-> NoCertificate, private_key |-> NoKey, additional_certs |-> <<>>]

BundleAt(path) ==
    CASE path = "/certs/a.pfx" ->
           [NoBundle EXCEPT !.exists = TRUE, !.password = "pw-a", !.mac = "password",
                            !.certificate = Cert("CN=A", 1, 2),
                            !.private_key = "key-a", !.additional_certs = <<"CN=CA-A">>]
      [] path = "/certs/b.pfx" ->
           [NoBundle EXCEPT !.exists = TRUE, !.password = "pw-b", !.mac = "MAC",
                            !.certificate = Cert("CN=B", 0, 9),
                            !.private_key = "key-b"]
      [] path = "/certs/corrupt.pfx" ->
           [NoBundle EXCEPT !.exists = TRUE, !.corrupt = TRUE]
      [] path = "/certs/keyonly.pfx" ->
           [NoBundle EXCEPT !.exists = TRUE, !.password = "pw-a", !.mac = "password",
                            !.private_key = "key-k"]
      [] path = "/certs/certonly.pfx" ->
           [NoBundle EXCEPT !.exists = TRUE, !.password = "pw-b", !.mac = "password",
                            !.certificate = Cert("CN=C", 0, 9)]
      [] OTHER -> NoBundle

Paths ==
    {"/certs/a.pfx", "/certs/b.pfx", "/certs/corrupt.pfx", "/certs/keyonly.pfx",
     "/certs/certonly.pfx", "/certs/missing.pfx"}
Passwords == {"pw-a", "pw-b"}

\* pkcs12.load_key_and_certificates(pfx_data, password): the parts of the
\* bundle, or ValueError with the decoder's message (a sequence of words).
Pkcs12Load(bundle, password) ==
    IF bundle.corrupt
    THEN [raised |-> TRUE, cause |-> "corrupt",
          message |-> <<"Could", "not", "deserialize", "PKCS12", "data">>,
          certificate |-> NoCertificate, private_key |-> NoKey, additional_certs |-> <<>>]
    ELSE IF password # bundle.password
    THEN [raised |-> TRUE, cause |-> "password",
          message |-> IF bundle.mac = "MAC"
                      THEN <<"PKCS12", "MAC", "verify", "failure">>
                      ELSE <<"Invalid", "password", "or", "PKCS12", "data">>,
          certificate |-> NoCertificate, private_key |-> NoKey, additional_certs |-> <<>>]
    ELSE [raised |-> FALSE, cause |-> "", message |-> <<>>,
          certificate |-> bundle.certificate, private_key |-> bundle.private_key,
          additional_certs |-> bundle.additional_certs]

\* str.lower() on a word of a decoder message.
Lower(word) ==
    CASE word = "Could" -> "could"
      [] word = "Invalid" -> "invalid"
      [] word = "PKCS12" -> "pkcs12"
      [] word = "MAC" -> "mac"
      [] OTHER -> word

\* needle in str(e).lower()
InLowered(needle, message) == \E i \in DOMAIN message : Lower(message[i]) = needle

\* Fault variant of DecodeErrorKind: only the word "mac" is looked for, and
\* the message is not lowered.
DecodeErrorKindByMacOnly(message) ==
    IF \E i \in DOMAIN message : message[i] = "mac"
    THEN "CertificatePasswordError"
    ELSE "CertificateError"

\* The except ValueError clause of load_a1_certificate: the kind of error
\* raised for a decoder message.
DecodeErrorKind(message) ==
    IF InLowered("password", message) \/ InLowered("mac", message)
    THEN "CertificatePasswordError"
    ELSE "CertificateError"

\* Fault variant of A1WindowError: a certificate is refused on the last
\* instant of its validity.
A1WindowErrorAtLimit(certificate, t) ==
    IF certificate.not_valid_after <= t THEN "CertificateExpiredError"
    ELSE IF certificate.not_valid_before > t THEN "CertificateError"
    ELSE "ok"

\* The validity checks of load_a1_certificate at time t. The error raised
\* for a certificate that is not valid yet is a plain CertificateError, which
\* the outer except clause wraps in another CertificateError.
A1WindowError(certificate, t) ==
    IF certificate.not_valid_after < t THEN "CertificateExpiredError"
    ELSE IF certificate.not_valid_before > t THEN "CertificateError"
    ELSE "ok"

\* The assignments load_a1_certificate makes once every check has passed.
A1Stored(mgr, decoded, path) ==
    [mgr EXCEPT !.certificate = decoded.certificate,
                !.private_key = decoded.private_key,
                !.additional_certs = decoded.additional_certs,
                !.cert_path = path]

\* Fault variant of LoadA1: the decoded parts are stored before the validity
\* checks.
LoadA1StoringEarly(mgr, path, password, t) ==
    LET bundle == BundleAt(path)
        decoded == Pkcs12Load(bundle, password)
    IN  IF ~bundle.exists THEN [kind |-> "CertificateNotFoundError", manager |-> mgr]
        ELSE IF decoded.raised
        THEN [kind |-> DecodeErrorKind(decoded.message), manager |-> mgr]
        ELSE IF decoded.certificate = NoCertificate
        THEN [kind |-> "CertificateError", manager |-> mgr]
        ELSE [kind |-> A1WindowError(decoded.certificate, t),
              manager |-> A1Stored(mgr, decoded, path)]

\* Fault variant of LoadA1: the file is decoded without checking that it
\* exists.
LoadA1NotLooking(mgr, path, password, t) ==
    LET decoded == Pkcs12Load(BundleAt(path), password)
    IN  IF decoded.raised
        THEN [kind |-> DecodeErrorKind(decoded.message), manager |-> mgr]
        ELSE IF decoded.certificate = NoCertificate
        THEN [kind |-> "CertificateError", manager |-> mgr]
        ELSE IF A1WindowError(decoded.certificate, t) # "ok"
        THEN [kind |-> A1WindowError(decoded.certificate, t), manager |-> mgr]
        ELSE [kind |-> "ok", manager |-> A1Stored(mgr, decoded, path)]

\* load_a1_certificate(pfx_path, password) at time t on a manager: the kind
\* of exception it ends with ("ok" for none) and the manager it leaves.
LoadA1(mgr, path, password, t) ==
    LET bundle == BundleAt(path)
        decoded == Pkcs12Load(bundle, password)
    IN  IF ~bundle.exists THEN [kind |-> "CertificateNotFoundError", manager |-> mgr]
        ELSE IF decoded.raised
        THEN [kind |-> DecodeErrorKind(decoded.message), manager |-> mgr]
        ELSE IF decoded.certificate = NoCertificate
        THEN [kind |-> "CertificateError", manager |-> mgr]
        ELSE IF A1WindowError(decoded.certificate, t) # "ok"
        THEN [kind |-> A1WindowError(decoded.certificate, t), manager |-> mgr]
        ELSE [kind |-> "ok", manager |-> A1Stored(mgr, decoded, path)]

\* The assignments load_a3_certificate_windows makes: certificate,
\* private_key and cert_path; _additional_certs and cert_type are not
\* assigned.
A3Stored(mgr, certificate, thumbprint) ==
    [mgr EXCEPT !.certificate = certificate,
                !.private_key = NoKey,
                !.cert_path = "Windows Certificate Store (thumbprint: "
                              \o (IF thumbprint = "" THEN "auto" ELSE thumbprint)
                              \o ")"]

\* load_a3_certificate_windows(thumbprint) at time t. NotImplementedError
\* off Windows is raised before the try block; everything raised inside it,
\* ImportError apart, leaves as CertificateError.
LoadA3(mgr, thumbprint, plat, t) ==
    IF plat.os # "win32" THEN [kind |-> "NotImplementedError", manager |-> mgr]
    ELSE IF ~plat.pywin32 THEN [kind |-> "CertificateError", manager |-> mgr]
    ELSE IF thumbprint # "" THEN [kind |-> "CertificateError", manager |-> mgr]
    ELSE IF plat.store = NoCertificate THEN [kind |-> "CertificateError", manager |-> mgr]
    ELSE IF plat.store.not_valid_after < t THEN [kind |-> "CertificateError", manager |-> mgr]
    ELSE [kind |-> "ok", manager |-> A3Stored(mgr, plat.store, thumbprint)]

\* Fault variant of TimedeltaDays: the days are truncated towards zero.
TimedeltaDaysTruncated(hours) ==
    IF hours >= 0 THEN hours \div 24 ELSE -((-hours) \div 24)

\* timedelta.days of a difference of so many hours: the whole days, rounded
\* down, so that a negative difference of an hour is -1 day.
TimedeltaDays(hours) == hours \div 24

\* get_certificate_info at time t: CertificateError when nothing is
\* loaded, else the validity window, the whole days left and is_valid.
CertificateInfo(mgr, t) ==
    IF mgr.certificate = NoCertificate
    THEN [raised |-> TRUE, subject |-> "", not_valid_before |-> 0, not_valid_after |-> 0,
          days_until_expiry |-> 0, is_valid |-> FALSE, cert_type |-> mgr.cert_type]
    ELSE [raised |-> FALSE,
          subject |-> mgr.certificate.subject,
          not_valid_before |-> mgr.certificate.not_valid_before,
          not_valid_after |-> mgr.certificate.not_valid_after,
          days_until_expiry |-> TimedeltaDays(mgr.certificate.not_valid_after - t),
          is_valid |-> /\ mgr.certificate.not_valid_before <= t
                       /\ t <= mgr.certificate.not_valid_after,
          cert_type |-> mgr.cert_type]

\* A message of validate_certificate: its wording and the number or
\* instant it quotes.
StatusMessage(wording, n) == [wording |-> wording, n |-> n]

\* Fault variant of ValidateCertificate: the warning starts one day late.
ValidateCertificateWarningLate(mgr, t, warn_days) ==
    LET info == CertificateInfo(mgr, t)
    IN  IF mgr.certificate = NoCertificate
        THEN [is_valid |-> FALSE, message |-> StatusMessage("Nenhum certificado carregado", 0)]
        ELSE IF ~info.is_valid
        THEN IF info.days_until_expiry < 0
             THEN [is_valid |-> FALSE,
                   message |-> StatusMessage("Certificado expirado ha N dias",
                                             -info.days_until_expiry)]
             ELSE [is_valid |-> FALSE,
                   message |-> StatusMessage("Certificado ainda nao e valido",
                                             info.not_valid_before)]
        ELSE IF info.days_until_expiry < warn_days
        THEN [is_valid |-> TRUE,
              message |-> StatusMessage("Certificado expira em N dias", info.days_until_expiry)]
        ELSE [is_valid |-> TRUE,
              message |-> StatusMessage("Certificado valido por mais N dias",
                                        info.days_until_expiry)]

\* validate_certificate(warn_days) at time t: (is_valid, message).
\* abs(days_until_expiry) is quoted where days_until_expiry < 0.
ValidateCertificate(mgr, t, warn_days) ==
    LET info == CertificateInfo(mgr, t)
    IN  IF mgr.certificate = NoCertificate
        THEN [is_valid |-> FALSE, message |-> StatusMessage("Nenhum certificado carregado", 0)]
        ELSE IF ~info.is_valid
        THEN IF info.days_until_expiry < 0
             THEN [is_valid |-> FALSE,
                   message |-> StatusMessage("Certificado expirado ha N dias",
                                             -info.days_until_expiry)]
             ELSE [is_valid |-> FALSE,
                   message |-> StatusMessage("Certificado ainda nao e valido",
                                             info.not_valid_before)]
        ELSE IF info.days_until_expiry <= warn_days
        THEN [is_valid |-> TRUE,
              message |-> StatusMessage("Certificado expira em N dias", info.days_until_expiry)]
        ELSE [is_valid |-> TRUE,
              message |-> StatusMessage("Certificado valido por mais N dias",
                                        info.days_until_expiry)]

\* A caller loads a PKCS#12 file into the manager.
load_a1_certificate(path, password) ==
    LET r == LoadA1(manager, path, password, now)
    IN  /\ manager' = r.manager
        /\ cred_op' = CredOp("load_a1", r.kind, path, password, "")
        /\ UNCHANGED <<sessionVars, concVars, platform, serverVars, toolVars, moreVars>>

\* A caller loads the certificate of the Windows certificate store.
load_a3_certificate_windows(thumbprint) ==
    LET r == LoadA3(manager, thumbprint, platform, now)
    IN  /\ manager' = r.manager
        /\ cred_op' = CredOp("load_a3", r.kind, "", "", thumbprint)
        /\ UNCHANGED <<sessionVars, concVars, platform, serverVars, toolVars, moreVars>>

\* The wall clock advances between certificate operations.
CredTick ==
    /\ now < MaxTime
    /\ now' = now + 1
    /\ cred_op' = CredOp("tick", "ok", "", "", "")
    /\ UNCHANGED <<max_session_age, cookies_file, state_file, metadata_file, last_op,
                   concVars, manager, platform, serverVars, toolVars, moreVars>>

\* The hosts the manager runs on: not Windows; Windows without pywin32;
\* Windows with pywin32 and a certificate store that is empty or holds one
\* certificate.
Platforms ==
    { [os |-> "linux", pywin32 |-> FALSE, store |-> NoCertificate],
      [os |-> "win32", pywin32 |-> FALSE, store |-> NoCertificate],
      [os |-> "win32", pywin32 |-> TRUE, store |-> NoCertificate],
      [os |-> "win32", pywin32 |-> TRUE, store |-> Cert("CN=Token", 0, 1)],
      [os |-> "win32", pywin32 |-> TRUE, store |-> Cert("CN=Novo", 2, 9)] }

LoadsA1 == \E path \in Paths, password \in Passwords : load_a1_certificate(path, password)
LoadsA3 == \E thumbprint \in {"", "AB12"} : load_a3_certificate_windows(thumbprint)

InitCred ==
    /\ now = 0
    /\ max_session_age = MaxAgeHours
    /\ cookies_file = FALSE
    /\ state_file = FALSE
    /\ metadata_file = NoFile
    /\ last_op = Op("init", <<>>, NoSnapshot)
    /\ writer = WriterIdle
    /\ clearer = ClearerIdle
    /\ reader = NothingSeen
    /\ manager \in {NewManager("A1"), NewManager("A3")}
    /\ platform \in Platforms
    /\ cred_op = NoCredOp
    /\ cert_manager = NoManager
    /\ cert_files = NoCertFiles
    /\ last_request = NoRequest
    /\ logged_in = FALSE
    /\ tmpdir = <<>>
    /\ calc = NoCalc
    /\ MoreIdle

NextCred ==
    \/ LoadsA1
    \/ LoadsA3
    \/ CredTick

SpecCred == InitCred /\ [][NextCred]_vars

-----------------------------------------------------------------------------
\* Export of the held certificate and key to temporary files. tmpdir is the
\* sequence of the files tempfile.NamedTemporaryFile(delete=False) has
\* created; a file is named by its position, and each new file gets a name
\* never used before.

\* A temporary .pem file: what was written to it, and whether it is still
\* on disk.
TempFile(certificate, private_key) ==
    [exists |-> TRUE, certificate |-> certificate, private_key |-> private_key]

\* Fault variant of PemError: the key is not looked at.
PemErrorIgnoringKey(mgr) ==
    IF mgr.certificate = NoCertificate THEN "Nenhum certificado carregado" ELSE ""

\* get_cert_and_key_pem: the message of the CertificateError it raises, ""
\* when it returns the two PEM texts.
PemError(mgr) ==
    IF mgr.certificate = NoCertificate THEN "Nenhum certificado carregado"
    ELSE IF mgr.private_key = NoKey THEN "Chave privada nao disponivel"
    ELSE ""

\* Fault variant of Exported: the files are created before the certificate
\* and key are asked for.
ExportedFilesFirst(mgr, dir) ==
    [kind |-> IF PemError(mgr) # "" THEN "CertificateError" ELSE "ok",
     message |-> PemError(mgr),
     paths |-> IF PemError(mgr) # "" THEN <<>> ELSE <<Len(dir) + 1, Len(dir) + 2>>,
     tmpdir |-> dir \o <<TempFile(mgr.certificate, NoKey),
                         TempFile(NoCertificate, mgr.private_key)>>]

\* get_cert_and_key_for_requests on a manager, with the temporary files
\* there are: the exception raised ("ok" for none), the paths returned and
\* the temporary files left. Two new files are created on every call.
Exported(mgr, dir) ==
    IF PemError(mgr) # ""
    THEN [kind |-> "CertificateError", message |-> PemError(mgr), paths |-> <<>>,
          tmpdir |-> dir]
    ELSE [kind |-> "ok", message |-> "",
          paths |-> <<Len(dir) + 1, Len(dir) + 2>>,
          tmpdir |-> dir \o <<TempFile(mgr.certificate, NoKey),
                              TempFile(NoCertificate, mgr.private_key)>>]

\* A caller asks the manager for temporary files.
get_cert_and_key_for_requests ==
    LET r == Exported(manager, tmpdir)
    IN  /\ Len(r.tmpdir) <= MaxTempFiles
        /\ tmpdir' = r.tmpdir
        /\ cred_op' = CredOp("export", r.kind, "", "", "")
        /\ calc' = [fn |-> "get_cert_and_key_for_requests", message |-> r.message,
                    paths |-> r.paths]
        /\ UNCHANGED <<sessionVars, concVars, manager, platform, serverVars, moreVars>>

\* A caller asks the manager for get_certificate_info.
get_certificate_info ==
    /\ cred_op' = CredOp("describe",
                         IF CertificateInfo(manager, now).raised
                         THEN "CertificateError" ELSE "ok", "", "", "")
    /\ calc' = [fn |-> "get_certificate_info", certificate |-> manager.certificate,
                t |-> now, info |-> CertificateInfo(manager, now),
                message |-> IF CertificateInfo(manager, now).raised
                            THEN "Nenhum certificado carregado" ELSE ""]
    /\ UNCHANGED <<sessionVars, concVars, manager, platform, serverVars, tmpdir, moreVars>>

\* A manager built for PFX files, on any host.
InitExport ==
    /\ InitCred
    /\ manager = NewManager("A1")

NextExport ==
    \/ LoadsA1
    \/ LoadsA3
    \/ get_cert_and_key_for_requests
    \/ get_certificate_info
    \/ CredTick

SpecExport == InitExport /\ [][NextExport]_vars

-----------------------------------------------------------------------------
\* The query tools of the server (server.py): a handler initializes the
\* certificate when the global cert_manager is None and then sends its
\* request with fazer_requisicao_pje.

\* The environment a handler may find: PJE_CERT_TYPE, PJE_CERT_PATH,
\* PJE_CERT_PASSWORD, PJE_CERT_THUMBPRINT.
Environments ==
    [cert_type : {"A1"}, path : Paths, password : Passwords, thumbprint : {""}]
    \cup [cert_type : {"A3"}, path : {""}, password : {""}, thumbprint : {"", "AB12"}]

\* load_certificate_from_env at time t: a new manager, loaded.
LoadFromEnv(env, plat, t) ==
    IF env.cert_type = "A1"
    THEN LoadA1(NewManager("A1"), env.path, env.password, t)
    ELSE LoadA3(NewManager("A3"), env.thumbprint, plat, t)

\* initialize_certificate at time t: the globals and temporary files it
\* leaves and whether it raised. cert_manager is assigned as soon as the load
\* returns, before the certificate is validated and exported; cert_files
\* only once an A1 certificate has been exported.
InitializeCertificate(held, files, dir, env, plat, t) ==
    LET loaded == LoadFromEnv(env, plat, t)
        exported == Exported(loaded.manager, dir)
    IN  IF loaded.kind # "ok"
        THEN [cert_manager |-> held, cert_files |-> files, tmpdir |-> dir, raised |-> TRUE]
        ELSE IF ~ValidateCertificate(loaded.manager, t, 30).is_valid
        THEN [cert_manager |-> loaded.manager, cert_files |-> files, tmpdir |-> dir,
              raised |-> TRUE]
        ELSE IF loaded.manager.cert_type # "A1"
        THEN [cert_manager |-> loaded.manager, cert_files |-> files, tmpdir |-> dir,
              raised |-> FALSE]
        ELSE IF exported.kind # "ok"
        THEN [cert_manager |-> loaded.manager, cert_files |-> files, tmpdir |-> dir,
              raised |-> TRUE]
        ELSE [cert_manager |-> loaded.manager, cert_files |-> exported.paths,
              tmpdir |-> exported.tmpdir, raised |-> FALSE]

\* fazer_requisicao_pje at time t with the globals given: the request sent
\* and the client certificate it is sent with (none for A3), or no request
\* when a CertificateError is raised first or the client cannot read the
\* files of cert_files. The certificate's validity is not looked at.
Requested(held, files, dir, t) ==
    IF held = NoManager THEN NoRequest
    ELSE IF files = NoCertFiles /\ held.cert_type = "A1" THEN NoRequest
    ELSE IF held.cert_type # "A1"
    THEN [sent |-> TRUE, at |-> t, certificate |-> NoCertificate]
    ELSE IF dir[files[1]].exists /\ dir[files[2]].exists
    THEN [sent |-> TRUE, at |-> t, certificate |-> dir[files[1]].certificate]
    ELSE NoRequest

\* A query tool (pje_search_process and the like) is called. The handler is
\* a coroutine: from its test of cert_manager to the return of
\* initialize_certificate it does not await, so no other handler runs in
\* between.
pje_search_process ==
    \E env \in Environments :
        LET globals == IF cert_manager = NoManager
                       THEN InitializeCertificate(cert_manager, cert_files, tmpdir, env,
                                                  platform, now)
                       ELSE [cert_manager |-> cert_manager, cert_files |-> cert_files,
                             tmpdir |-> tmpdir, raised |-> FALSE]
        IN  /\ cert_manager' = globals.cert_manager
            /\ cert_files' = globals.cert_files
            /\ tmpdir' = globals.tmpdir
            /\ last_request' = IF globals.raised THEN NoRequest
                               ELSE Requested(globals.cert_manager, globals.cert_files,
                                              globals.tmpdir, now)
            /\ last_op' = [Op("search", <<>>, NoSnapshot) EXCEPT !.arg = globals.raised]
            /\ UNCHANGED <<now, max_session_age, cookies_file, state_file, metadata_file,
                           concVars, credVars, logged_in, calc, moreVars>>

\* initialize_certificate is called, whatever the globals hold.
initialize_certificate ==
    \E env \in Environments :
        LET globals == InitializeCertificate(cert_manager, cert_files, tmpdir, env,
                                             platform, now)
        IN  /\ Len(globals.tmpdir) <= MaxTempFiles
            /\ cert_manager' = globals.cert_manager
            /\ cert_files' = globals.cert_files
            /\ tmpdir' = globals.tmpdir
            /\ last_op' = [Op("initialize", <<>>, NoSnapshot) EXCEPT !.arg = globals.raised]
            /\ UNCHANGED <<now, max_session_age, cookies_file, state_file, metadata_file,
                           concVars, credVars, last_request, logged_in, calc, moreVars>>

\* Fault variant of Cleaned: cert_files is reset only when both files could
\* be deleted.
CleanedWithoutFinally(files, dir, failing) ==
    IF files = NoCertFiles THEN [cert_files |-> files, tmpdir |-> dir]
    ELSE IF dir[files[1]].exists /\ failing = "cert"
    THEN [cert_files |-> files, tmpdir |-> dir]
    ELSE IF dir[files[2]].exists /\ failing = "key"
    THEN [cert_files |-> files, tmpdir |-> [dir EXCEPT ![files[1]].exists = FALSE]]
    ELSE [cert_files |-> NoCertFiles,
          tmpdir |-> [dir EXCEPT ![files[1]].exists = FALSE, ![files[2]].exists = FALSE]]

\* cleanup_certificate: the globals and temporary files it leaves. failing
\* names the file whose os.unlink raises, if any; the exception is logged,
\* what was not yet deleted stays, and cert_files is reset in any case.
Cleaned(files, dir, failing) ==
    IF files = NoCertFiles THEN [cert_files |-> files, tmpdir |-> dir]
    ELSE IF dir[files[1]].exists /\ failing = "cert"
    THEN [cert_files |-> NoCertFiles, tmpdir |-> dir]
    ELSE IF dir[files[2]].exists /\ failing = "key"
    THEN [cert_files |-> NoCertFiles, tmpdir |-> [dir EXCEPT ![files[1]].exists = FALSE]]
    ELSE [cert_files |-> NoCertFiles,
          tmpdir |-> [dir EXCEPT ![files[1]].exists = FALSE, ![files[2]].exists = FALSE]]

cleanup_certificate ==
    \E failing \in {"none", "cert", "key"} :
        /\ cert_files' = Cleaned(cert_files, tmpdir, failing).cert_files
        /\ tmpdir' = Cleaned(cert_files, tmpdir, failing).tmpdir
        /\ last_op' = Op("cleanup", <<>>, NoSnapshot)
        /\ UNCHANGED <<now, max_session_age, cookies_file, state_file, metadata_file,
                       concVars, credVars, cert_manager, last_request, logged_in, calc, moreVars>>

InitServer ==
    /\ now = 0
    /\ max_session_age = MaxAgeHours
    /\ cookies_file = FALSE
    /\ state_file = FALSE
    /\ metadata_file = NoFile
    /\ last_op = Op("init", <<>>, NoSnapshot)
    /\ writer = WriterIdle
    /\ clearer = ClearerIdle
    /\ reader = NothingSeen
    /\ manager = NewManager("A1")
    /\ platform \in Platforms
    /\ cred_op = NoCredOp
    /\ cert_manager = NoManager
    /\ cert_files = NoCertFiles
    /\ last_request = NoRequest
    /\ logged_in = FALSE
    /\ tmpdir = <<>>
    /\ calc = NoCalc
    /\ MoreIdle

NextServer ==
    \/ pje_search_process
    \/ Tick

SpecServer == InitServer /\ [][NextServer]_vars

\* The server's certificate functions called in any order within one hour,
\* off Windows or on Windows with a certificate in the store.
InitLifecycle ==
    /\ InitServer
    /\ platform \in { [os |-> "linux", pywin32 |-> FALSE, store |-> NoCertificate],
                       [os |-> "win32", pywin32 |-> TRUE, store |-> Cert("CN=Token", 0, 1)] }

NextLifecycle ==
    \/ pje_search_process
    \/ initialize_certificate
    \/ cleanup_certificate

SpecLifecycle == InitLifecycle /\ [][NextLifecycle]_vars

-----------------------------------------------------------------------------
\* Two session stores constructed over the same session_dir.

\* The session names the stores are given, each as the parts "/" separates:
\* "a", "b", "a/" and "./a".
SessionNames == { <<"a">>, <<"b">>, <<"a", "">>, <<".", "a">> }

\* self.session_dir / session_name, below session_dir: pathlib drops the
\* empty parts and the "." parts of what is joined.
SessionPath(name) == SelectSeq(name, LAMBDA part : part # "" /\ part # ".")

\* get_playwright_persistent_context_config()['user_data_dir']
user_data_dir(name) == SessionPath(name)

NoArtifacts == [cookies |-> FALSE, state |-> FALSE, metadata |-> NoFile]

\* The artifacts of store i, and their classification.
ArtifactsOf(i) == disk[SessionPath(session_names[i])]
ClassOf(i) == Classify(SessionInfo(ArtifactsOf(i).metadata, now, max_session_age))

store_save(i) ==
    \E a \in ConcurrentCreateArgs :
        LET metadata == create_session_metadata(now, now, a.auth_method, a.username,
                                                a.additional_data)
        IN  /\ disk' = [disk EXCEPT ![SessionPath(session_names[i])].metadata =
                                        SavedFile(metadata)]
            /\ last_op' = Op("store_save", i, NoSnapshot)
            /\ UNCHANGED <<now, max_session_age, cookies_file, state_file, metadata_file,
                           concVars, credVars, serverVars, toolVars, session_names,
                           toucher, request>>

store_update_last_used(i) ==
    /\ disk' = [disk EXCEPT ![SessionPath(session_names[i])].metadata =
                                TouchedFile(ArtifactsOf(i).metadata, now)]
    /\ last_op' = Op("store_touch", i, NoSnapshot)
    /\ UNCHANGED <<now, max_session_age, cookies_file, state_file, metadata_file,
                   concVars, credVars, serverVars, toolVars, session_names,
                   toucher, request>>

store_clear_session(i) ==
    /\ disk' = [disk EXCEPT ![SessionPath(session_names[i])] =
                                ClearedArtifacts(ArtifactsOf(i).cookies, ArtifactsOf(i).state,
                                                 ArtifactsOf(i).metadata)]
    /\ last_op' = Op("store_clear", i, NoSnapshot)
    /\ UNCHANGED <<now, max_session_age, cookies_file, state_file, metadata_file,
                   concVars, credVars, serverVars, toolVars, session_names,
                   toucher, request>>

\* The browser driver of store i, rooted at its user_data_dir, stores
\* cookies and state.
store_browser(i) ==
    /\ disk' = [disk EXCEPT ![user_data_dir(session_names[i])].cookies = TRUE,
                            ![user_data_dir(session_names[i])].state = TRUE]
    /\ last_op' = Op("store_browser", i, NoSnapshot)
    /\ UNCHANGED <<now, max_session_age, cookies_file, state_file, metadata_file,
                   concVars, credVars, serverVars, toolVars, session_names,
                   toucher, request>>

\* Two stores constructed: __init__ makes each store's directory.
InitStores ==
    /\ now = 0
    /\ max_session_age = MaxAgeHours
    /\ cookies_file = FALSE
    /\ state_file = FALSE
    /\ metadata_file = NoFile
    /\ last_op = Op("init", 0, NoSnapshot)
    /\ writer = WriterIdle
    /\ clearer = ClearerIdle
    /\ reader = NothingSeen
    /\ manager = NewManager("A1")
    /\ platform = [os |-> "linux", pywin32 |-> FALSE, store |-> NoCertificate]
    /\ cred_op = NoCredOp
    /\ cert_manager = NoManager
    /\ cert_files = NoCertFiles
    /\ last_request = NoRequest
    /\ logged_in = FALSE
    /\ tmpdir = <<>>
    /\ calc = NoCalc
    /\ session_names \in SessionNames \X SessionNames
    /\ disk = [dir \in {SessionPath(name) : name \in SessionNames} |-> NoArtifacts]
    /\ toucher = ToucherIdle
    /\ request = NoCall

StoresTick ==
    /\ now < MaxTime
    /\ now' = now + 1
    /\ last_op' = Op("tick", 0, NoSnapshot)
    /\ UNCHANGED <<restVars, max_session_age, cookies_file, state_file, metadata_file,
                   concVars>>

NextStores ==
    \/ \E i \in {1, 2} : store_save(i)
    \/ \E i \in {1, 2} : store_update_last_used(i)
    \/ \E i \in {1, 2} : store_clear_session(i)
    \/ \E i \in {1, 2} : store_browser(i)
    \/ StoresTick

SpecStores == InitStores /\ [][NextStores]_vars

-----------------------------------------------------------------------------
\* Functions of their arguments alone, applied to arguments a caller may
\* pass: a certificate valid from hour 48 to hour 96 described and validated
\* at any hour up to MaxHours, and session ages around the hour and the day.

Hours == 0..MaxHours
WarnDays == {0, 1, 30}
AgeSeconds ==
    {0, 1, 59, 60, 61, 119, 3599, 3600, 3601, 7199, 7200, 86399, 86400, 86401,
     172799, 172800}

\* A manager holding a certificate with the given validity.
Holding(not_valid_before, not_valid_after) ==
    [NewManager("A1") EXCEPT !.certificate = Cert("CN=D", not_valid_before, not_valid_after),
                             !.private_key = "key-d"]

\* get_certificate_info is called.
describes_certificate ==
    /\ \E t \in Hours :
          calc' = [fn |-> "get_certificate_info", certificate |-> Holding(48, 96).certificate,
                   t |-> t, info |-> CertificateInfo(Holding(48, 96), t)]
    /\ UNCHANGED <<sessionVars, concVars, credVars, serverVars, tmpdir, moreVars>>

\* validate_certificate is called.
validates_certificate ==
    /\ \E t \in Hours, warn_days \in WarnDays :
          calc' = [fn |-> "validate_certificate", certificate |-> Holding(48, 96).certificate,
                   t |-> t, warn_days |-> warn_days,
                   info |-> CertificateInfo(Holding(48, 96), t),
                   result |-> ValidateCertificate(Holding(48, 96), t, warn_days)]
    /\ UNCHANGED <<sessionVars, concVars, credVars, serverVars, tmpdir, moreVars>>

\* _format_timedelta is called.
formats_timedelta ==
    /\ \E seconds \in AgeSeconds :
          calc' = [fn |-> "_format_timedelta", seconds |-> seconds,
                   age_human |-> format_timedelta_seconds(seconds)]
    /\ UNCHANGED <<sessionVars, concVars, credVars, serverVars, tmpdir, moreVars>>

NextCalc ==
    \/ describes_certificate
    \/ validates_certificate
    \/ formats_timedelta

InitCalc == Init /\ max_session_age = MaxAgeHours

SpecCalc == InitCalc /\ [][NextCalc]_vars

-----------------------------------------------------------------------------
\* Configuration read from the environment (get_int_env, in common/utilities.py
\* and again in the PJE server). A string is the sequence of its characters.

Digits == <<"0", "1", "2", "3", "4", "5", "6", "7", "8", "9">>
IsDigit(c) == \E i \in DOMAIN Digits : Digits[i] = c
DigitValue(c) == (CHOOSE i \in DOMAIN Digits : Digits[i] = c) - 1

\* str.strip(): the blanks at both ends removed.
RECURSIVE Strip(_)
Strip(str) ==
    IF str = <<>> THEN str
    ELSE IF Head(str) = " " THEN Strip(Tail(str))
    ELSE IF str[Len(str)] = " " THEN Strip(SubSeq(str, 1, Len(str) - 1))
    ELSE str

\* The number a run of digits and underscores stands for.
RECURSIVE DigitsValue(_, _)
DigitsValue(str, acc) ==
    IF str = <<>> THEN acc
    ELSE IF Head(str) = "_" THEN DigitsValue(Tail(str), acc)
    ELSE DigitsValue(Tail(str), 10 * acc + DigitValue(Head(str)))

\* int(value_str): blanks around, one sign, then digits with single
\* underscores between them; ValueError for anything else.
ParseInt(value_str) ==
    LET stripped == Strip(value_str)
        signed == stripped # <<>> /\ Head(stripped) \in {"+", "-"}
        body == IF signed THEN Tail(stripped) ELSE stripped
        wellFormed ==
            /\ body # <<>>
            /\ IsDigit(body[1])
            /\ IsDigit(body[Len(body)])
            /\ \A i \in DOMAIN body : IsDigit(body[i]) \/ body[i] = "_"
            /\ \A i \in 1..(Len(body) - 1) : ~(body[i] = "_" /\ body[i + 1] = "_")
    IN  IF ~wellFormed THEN [raised |-> TRUE, value |-> 0]
        ELSE [raised |-> FALSE,
              value |-> IF signed /\ Head(stripped) = "-"
                        THEN -DigitsValue(body, 0) ELSE DigitsValue(body, 0)]

\* os.getenv(var_name): None, or the string the variable holds.
Unset == [set |-> FALSE, str |-> <<>>]
SetTo(str) == [set |-> TRUE, str |-> str]
\* max_value: None, or a limit.
NoMax == [given |-> FALSE, value |-> 0]
Max(n) == [given |-> TRUE, value |-> n]

\* Fault variant of get_int_env: a value outside the limits gives the default.
get_int_env_defaulting(env_value, default, min_value, max_value) ==
    IF ~env_value.set THEN default
    ELSE IF ParseInt(env_value.str).raised THEN default
    ELSE IF ParseInt(env_value.str).value < min_value THEN default
    ELSE IF max_value.given /\ ParseInt(env_value.str).value > max_value.value THEN default
    ELSE ParseInt(env_value.str).value

\* get_int_env of common/utilities.py, given what os.getenv returns.
get_int_env(env_value, default, min_value, max_value) ==
    IF ~env_value.set THEN default
    ELSE IF ParseInt(env_value.str).raised THEN default
    ELSE IF ParseInt(env_value.str).value < min_value THEN min_value
    ELSE IF max_value.given /\ ParseInt(env_value.str).value > max_value.value
    THEN max_value.value
    ELSE ParseInt(env_value.str).value

\* get_int_env of tjes_pje_mcp/server.py: the limits are compared inside the
\* try block that converts the string.
server_get_int_env(env_value, default, min_value, max_value) ==
    IF ~env_value.set THEN default
    ELSE LET converted == ParseInt(env_value.str)
         IN  IF ~converted.raised /\ converted.value < min_value THEN min_value
             ELSE IF /\ ~converted.raised
                     /\ max_value.given
                     /\ converted.value > max_value.value
             THEN max_value.value
             ELSE IF ~converted.raised THEN converted.value
             ELSE default

\* What the variable may hold: "", "abc", "3.5", "7", " 7 ", "+7", "-7", "0",
\* "07", "12", "400", "1_0", "_7", "7_", "1__0", "+", "7 7".
EnvStrings ==
    { <<>>, <<"a", "b", "c">>, <<"3", ".", "5">>, <<"7">>, <<" ", "7", " ">>, <<"+", "7">>,
      <<"-", "7">>, <<"0">>, <<"0", "7">>, <<"1", "2">>, <<"4", "0", "0">>,
      <<"1", "_", "0">>, <<"_", "7">>, <<"7", "_">>, <<"1", "_", "_", "0">>, <<"+">>,
      <<"7", " ", "7">> }

\* The limits the callers pass (TIMEOUT, RETRY_ATTEMPTS, the defaults of the
\* signature) and a pair given the wrong way round.
EnvLimits ==
    { [default |-> 60, min_value |-> 5, max_value |-> Max(300)],
      [default |-> 3, min_value |-> 1, max_value |-> Max(10)],
      [default |-> 3, min_value |-> 1, max_value |-> NoMax],
      [default |-> 8, min_value |-> 10, max_value |-> Max(5)] }

\* get_int_env is called, in both modules, with the variable in one state.
reads_int_env ==
    /\ \E env_value \in {Unset} \cup {SetTo(str) : str \in EnvStrings}, lim \in EnvLimits :
          calc' = [fn |-> "get_int_env", env_value |-> env_value, limits |-> lim,
                   result |-> get_int_env(env_value, lim.default, lim.min_value,
                                          lim.max_value),
                   server_result |-> server_get_int_env(env_value, lim.default,
                                                        lim.min_value, lim.max_value)]
    /\ UNCHANGED <<sessionVars, concVars, credVars, serverVars, tmpdir, moreVars>>

\* Process numbers (validar_numero_processo, datajud_mcp/server.py).

\* c.isdigit(): the decimal digits and the other characters Unicode counts
\* as digits, of which "^2" stands for the superscript two (U+00B2).
isdigit(c) == IsDigit(c) \/ c = "^2"

\* Fault variant of validar_numero_processo: more than 20 digits pass.
validar_numero_processo_longer(numero) ==
    LET apenas_digitos == SelectSeq(numero, isdigit)
    IN  IF Len(apenas_digitos) < 20 THEN [raised |-> TRUE, value |-> <<>>]
        ELSE [raised |-> FALSE, value |-> apenas_digitos]

\* validar_numero_processo(numero): the digits of numero, or ValueError.
validar_numero_processo(numero) ==
    LET apenas_digitos == SelectSeq(numero, isdigit)
    IN  IF Len(apenas_digitos) # 20 THEN [raised |-> TRUE, value |-> <<>>]
        ELSE [raised |-> FALSE, value |-> apenas_digitos]

\* Numbers a caller passes, with n digits: the digits alone; each followed
\* by "." or "-"; after the words "no "; with a superscript two first.
Numero(n, style) ==
    LET plain == [i \in 1..n |-> Digits[(i % 10) + 1]]
    IN  IF style = "plain" THEN plain
        ELSE IF style = "formatted"
        THEN [i \in 1..(2 * n) |-> IF i % 2 = 1 THEN Digits[(((i + 1) \div 2) % 10) + 1]
                                   ELSE IF i % 4 = 0 THEN "-" ELSE "."]
        ELSE IF style = "worded" THEN <<"n", "o", " ">> \o plain
        ELSE <<"^2">> \o plain

NumeroStyles == {"plain", "formatted", "worded", "superscript"}

\* validar_numero_processo is called, and called again on what it returned.
validates_numero ==
    /\ \E n \in 0..MaxDigits, style \in NumeroStyles :
          LET first == validar_numero_processo(Numero(n, style))
          IN  calc' = [fn |-> "validar_numero_processo", numero |-> Numero(n, style),
                       result |-> first,
                       again |-> IF first.raised THEN first
                                 ELSE validar_numero_processo(first.value)]
    /\ UNCHANGED <<sessionVars, concVars, credVars, serverVars, tmpdir, moreVars>>

NextConfig ==
    \/ reads_int_env
    \/ validates_numero

SpecConfig == InitCalc /\ [][NextConfig]_vars

-----------------------------------------------------------------------------
\* A call of fazer_requisicao_pje, attempt by attempt, under its decorator
\* @retry(stop=stop_after_attempt(RETRY_ATTEMPTS), wait=wait_exponential(...)).

\* RETRY_ATTEMPTS, given what PJE_RETRY_ATTEMPTS holds when the module loads.
RETRY_ATTEMPTS(env_value) == server_get_int_env(env_value, 3, 1, Max(10))

\* What the PJE answers to one request: a status, or nothing in time.
Responses ==
    { [timeout |-> FALSE, status |-> 200], [timeout |-> FALSE, status |-> 404],
      [timeout |-> FALSE, status |-> 500], [timeout |-> TRUE, status |-> 0] }

\* One execution of the function body with the globals given: whether a
\* request was sent, and the value returned or the exception raised.
Attempted(held, files, dir, response) ==
    IF held = NoManager \/ (files = NoCertFiles /\ held.cert_type = "A1")
    THEN [sent |-> FALSE, raised |-> TRUE, value |-> "CertificateError", status |-> 0]
    ELSE IF held.cert_type = "A1" /\ ~(dir[files[1]].exists /\ dir[files[2]].exists)
    THEN [sent |-> FALSE, raised |-> TRUE, value |-> "OSError", status |-> 0]
    ELSE IF response.timeout
    THEN [sent |-> TRUE, raised |-> TRUE, value |-> "TimeoutException", status |-> 0]
    ELSE IF 500 <= response.status /\ response.status < 600
    THEN [sent |-> TRUE, raised |-> TRUE, value |-> "HTTPStatusError",
          status |-> response.status]
    ELSE IF 400 <= response.status /\ response.status < 500
    THEN [sent |-> TRUE, raised |-> FALSE, value |-> "error", status |-> response.status]
    ELSE [sent |-> TRUE, raised |-> FALSE, value |-> "json", status |-> response.status]

\* Fault variant of Retried: the attempts stop one later.
RetriedOnceMore(call, attempt) ==
    LET counted == [call EXCEPT !.attempts = call.attempts + 1,
                                !.sent = call.sent + (IF attempt.sent THEN 1 ELSE 0),
                                !.status = attempt.status]
    IN  IF ~attempt.raised
        THEN [counted EXCEPT !.pc = "done", !.outcome = attempt.value, !.cause = ""]
        ELSE IF counted.attempts > call.stop
        THEN [counted EXCEPT !.pc = "done", !.outcome = "RetryError",
                             !.cause = attempt.value]
        ELSE [counted EXCEPT !.cause = attempt.value]

\* The retry decorator after one attempt: a returned value ends the call;
\* any exception is retried while attempts remain, and after the last the
\* call raises RetryError in its place (reraise is not set).
Retried(call, attempt) ==
    LET counted == [call EXCEPT !.attempts = call.attempts + 1,
                                !.sent = call.sent + (IF attempt.sent THEN 1 ELSE 0),
                                !.status = attempt.status]
    IN  IF ~attempt.raised
        THEN [counted EXCEPT !.pc = "done", !.outcome = attempt.value, !.cause = ""]
        ELSE IF counted.attempts >= call.stop
        THEN [counted EXCEPT !.pc = "done", !.outcome = "RetryError",
                             !.cause = attempt.value]
        ELSE [counted EXCEPT !.cause = attempt.value]

\* fazer_requisicao_pje is called; no call is under way.
fazer_requisicao_pje ==
    /\ request.pc \in {"idle", "done"}
    /\ request' = [NoCall EXCEPT !.pc = "attempting", !.stop = request.stop]
    /\ last_op' = Op("request", <<>>, NoSnapshot)
    /\ UNCHANGED <<now, max_session_age, cookies_file, state_file, metadata_file, concVars,
                   credVars, serverVars, toolVars, session_names, disk, toucher>>

\* The next attempt of the call runs, after the wait if it is not the first.
request_attempt ==
    /\ request.pc = "attempting"
    /\ \E response \in Responses :
          request' = Retried(request, Attempted(cert_manager, cert_files, tmpdir, response))
    /\ last_op' = Op("attempt", <<>>, NoSnapshot)
    /\ UNCHANGED <<now, max_session_age, cookies_file, state_file, metadata_file, concVars,
                   credVars, serverVars, toolVars, session_names, disk, toucher>>

\* The server loaded with PJE_RETRY_ATTEMPTS unset, "1" or "2".
InitRequest ==
    /\ now = 0
    /\ max_session_age = MaxAgeHours
    /\ cookies_file = FALSE
    /\ state_file = FALSE
    /\ metadata_file = NoFile
    /\ last_op = Op("init", <<>>, NoSnapshot)
    /\ writer = WriterIdle
    /\ clearer = ClearerIdle
    /\ reader = NothingSeen
    /\ manager = NewManager("A1")
    /\ platform \in { [os |-> "linux", pywin32 |-> FALSE, store |-> NoCertificate],
                       [os |-> "win32", pywin32 |-> TRUE, store |-> Cert("CN=Token", 0, 1)] }
    /\ cred_op = NoCredOp
    /\ cert_manager = NoManager
    /\ cert_files = NoCertFiles
    /\ last_request = NoRequest
    /\ logged_in = FALSE
    /\ tmpdir = <<>>
    /\ calc = NoCalc
    /\ session_names = NoNames
    /\ disk = NoDisk
    /\ toucher = ToucherIdle
    /\ \E env_value \in {Unset, SetTo(<<"1">>), SetTo(<<"2">>)} :
          request = [NoCall EXCEPT !.stop = RETRY_ATTEMPTS(env_value)]

NextRequest ==
    \/ initialize_certificate
    \/ cleanup_certificate
    \/ fazer_requisicao_pje
    \/ request_attempt

SpecRequest == InitRequest /\ [][NextRequest]_vars

\* An attempt that can run does run: the body returns or raises within
\* TIMEOUT, and the wait between attempts is at most 30 seconds.
SpecRequestLive == SpecRequest /\ WF_vars(request_attempt)

-----------------------------------------------------------------------------
\* update_last_used in two steps, for a caller that runs while another
\* process saves or clears the same session: it reads the metadata, and
\* later writes back what it read with a new last_used.

ToucherReads ==
    /\ toucher.pc = "idle"
    /\ toucher' = [pc |-> "read", metadata |-> ReadMetadata(metadata_file)]
    /\ last_op' = Op("touch_read", <<>>, Snapshot)
    /\ UNCHANGED <<now, max_session_age, cookies_file, state_file, metadata_file, concVars,
                   credVars, serverVars, toolVars, session_names, disk, request>>

\* The file the second step leaves, given what the first step read.
TouchWritten(metadata, file, t) ==
    IF ~MetadataFalsy(metadata) /\ metadata.ty = "dict"
    THEN SavedFile(DictSet(metadata.items, PyStr("last_used"), PyStr(isoformat(t))))
    ELSE file

ToucherWrites ==
    /\ toucher.pc = "read"
    /\ metadata_file' = TouchWritten(toucher.metadata, metadata_file, now)
    /\ toucher' = [toucher EXCEPT !.pc = "done"]
    /\ last_op' = [Op("touch_write", <<>>, Snapshot) EXCEPT
                       !.raised = (~MetadataFalsy(toucher.metadata)
                                   /\ toucher.metadata.ty # "dict")]
    /\ UNCHANGED <<now, max_session_age, cookies_file, state_file, concVars,
                   credVars, serverVars, toolVars, session_names, disk, request>>

ToucherReturns ==
    /\ toucher.pc = "done"
    /\ toucher' = ToucherIdle
    /\ last_op' = Op("touch_return", <<>>, NoSnapshot)
    /\ UNCHANGED <<now, max_session_age, cookies_file, state_file, metadata_file, concVars,
                   credVars, serverVars, toolVars, session_names, disk, request>>

\* The server's own save (pje_authenticate_safe_id) at the present time.
SavesNewSession ==
    save_session_metadata(create_session_metadata(now, now, PyStr("safe_id"), PyNone,
                              << <<PyStr("status"), PyStr("iniciando")>> >>))

\* A save by hand, with another auth_method.
SavesTestSession ==
    save_session_metadata(create_session_metadata(now, now, PyStr("test"), PyNone, <<>>))

NextTouch ==
    \/ ToucherReads
    \/ ToucherWrites
    \/ ToucherReturns
    \/ SavesNewSession
    \/ SavesTestSession
    \/ clear_session
    \/ BrowserStores
    \/ Tick

SpecTouch == InitCalc /\ [][NextTouch]_vars

-----------------------------------------------------------------------------
\* Properties of the sequential specification.

\* The metadata file holds a created_at that reads as a timestamp.
HasCreatedAt(file) ==
    IsIsoFormat(DictGet(ReadMetadata(file).items, PyStr("created_at")))

CreatedAtOf(file) ==
    fromisoformat(DictGet(ReadMetadata(file).items, PyStr("created_at")))

\* C1: in every reachable state the session is reported valid if and only if
\* the metadata file exists, holds a created_at, and now - created_at is at
\* most the maximum age (an age equal to the maximum is still valid).
C1_ValidIffWithinMaxAge ==
    get_session_info.valid <=>
        /\ metadata_file.exists
        /\ HasCreatedAt(metadata_file)
        /\ now - CreatedAtOf(metadata_file) <= max_session_age

\* A valid session whose age is exactly the maximum age.
C1_Witness ==
    /\ get_session_info.valid
    /\ max_session_age > 0
    /\ now - CreatedAtOf(metadata_file) = max_session_age

C3_ExpiredOnceTooOld ==
    /\ ( /\ last_op.op = "save"
         /\ ~json_dump(last_op.arg).raised
         /\ DictGet(last_op.arg, PyStr("created_at")) = PyStr(isoformat(now)) )
       => classify = "Valid"
    /\ ( /\ HasCreatedAt(metadata_file)
         /\ now - CreatedAtOf(metadata_file) > max_session_age )
       => classify = "Expired"

\* C3, step part: while the stored created_at stays the same, a Valid session
\* stops being Valid only in a step in which the clock advances, and a session
\* that is not Valid does not become Valid.
C3_OnlyTimeExpires ==
    ( /\ HasCreatedAt(metadata_file)
      /\ HasCreatedAt(metadata_file')
      /\ CreatedAtOf(metadata_file') = CreatedAtOf(metadata_file) )
    => LET before == Classify(SessionInfo(metadata_file, now, max_session_age))
           after == Classify(SessionInfo(metadata_file', now', max_session_age'))
       IN  /\ (before = "Valid" /\ after # "Valid") => (now' > now /\ after = "Expired")
           /\ before # "Valid" => after # "Valid"

\* C3: a session Valid right after creation is Expired once its age exceeds
\* the maximum age, it turns from Valid to Expired only by the passage of
\* time, and it is not Valid again unless a new created_at is written.
C3_ExpiryIsByTimeOnly == []C3_ExpiredOnceTooOld /\ [][C3_OnlyTimeExpires]_vars

\* The clock has just carried a session past its maximum age.
C3_Witness ==
    /\ last_op.op = "tick"
    /\ classify = "Expired"
    /\ HasCreatedAt(metadata_file)
    /\ now - CreatedAtOf(metadata_file) = max_session_age + 1

WellFormed(metadata) ==
    \A i \in DOMAIN metadata :
        /\ metadata[i][1].ty = "str"
        /\ metadata[i][2].ty \in {"str", "int", "NoneType", "list"}

\* C5: after save_session_metadata(m) with m well-formed,
\* get_session_metadata returns a dict equal to m, extras included.
C5_RoundTrip ==
    (last_op.op = "save" /\ WellFormed(last_op.arg)) =>
        /\ get_session_metadata.ty = "dict"
        /\ DictEq(get_session_metadata.items, last_op.arg)

\* Well-formed metadata with a username and an extra has been saved over an
\* earlier file.
C5_Witness ==
    /\ last_op.op = "save"
    /\ WellFormed(last_op.arg)
    /\ DictGet(last_op.arg, PyStr("test")) = PyStr("value")
    /\ DictGet(last_op.arg, PyStr("username")) = PyStr("teste@example.com")
    /\ now > 0

\* C6: update_last_used on readable metadata changes last_used only: every
\* other key keeps its value, no key is added or dropped, and the
\* classification is the one before the touch (Expired stays Expired).
C6_TouchKeepsCreatedAt ==
    LET old == ReadMetadata(last_op.before.metadata)
        new == get_session_metadata
    IN  (last_op.op = "touch" /\ ~MetadataFalsy(old)) =>
            /\ new.ty = "dict"
            /\ DictKeys(new.items) = DictKeys(old.items) \cup {PyStr("last_used")}
            /\ \A k \in DictKeys(old.items) \ {PyStr("last_used")} :
                  DictGet(new.items, k) = DictGet(old.items, k)
            /\ DictGet(new.items, PyStr("last_used")) = PyStr(isoformat(now))
            /\ classify = last_op.before.class

\* An Expired session has been touched, at a time later than its last use.
C6_Witness ==
    /\ last_op.op = "touch"
    /\ last_op.before.class = "Expired"
    /\ HasCreatedAt(last_op.before.metadata)
    /\ get_session_metadata # ReadMetadata(last_op.before.metadata)

\* C7: update_last_used with no metadata file raises nothing, creates no
\* file and leaves the session Absent.
C7_TouchAbsentIsNoOp ==
    (last_op.op = "touch" /\ ~last_op.before.metadata.exists) =>
        /\ ~last_op.raised
        /\ metadata_file = NoFile
        /\ cookies_file = last_op.before.cookies
        /\ state_file = last_op.before.state
        /\ classify = "Absent"

\* update_last_used has run with no metadata file, beside browser artifacts.
C7_Witness ==
    /\ last_op.op = "touch"
    /\ ~last_op.before.metadata.exists
    /\ last_op.before.cookies

-----------------------------------------------------------------------------
\* Properties of the concurrent specification.

\* The artifacts present in a view of the session directory.
Present(cookies, state, metadata) ==
    (IF cookies THEN {"cookies"} ELSE {})
        \cup (IF state THEN {"state"} ELSE {})
        \cup (IF metadata THEN {"metadata"} ELSE {})

\* C9: a reader that looks while clear_session runs (and no write has
\* started) sees either every artifact clear_session found or none of them.
C9_ClearIsAtomic ==
    (reader.taken /\ reader.clearing /\ ~reader.written) =>
        LET seen == Present(reader.cookies, reader.state, reader.exists)
            found == Present(clearer.found.cookies, clearer.found.state,
                             clearer.found.metadata.exists)
        IN  seen = found \/ seen = {}

\* C10: a reader that reads the metadata file while save_session_metadata
\* writes well-formed m2 over readable metadata m1 (and no clear has started)
\* gets m1 or m2.
C10_WriteIsAtomicReplace ==
    ( /\ reader.taken
      /\ reader.writing
      /\ ~reader.clearing
      /\ clearer.pc = "idle"
      /\ WellFormed(writer.new)
      /\ ReadMetadata(writer.old).ty = "dict" )
    => LET got == reader.metadata
       IN  /\ got.ty = "dict"
           /\ \/ DictEq(got.items, ReadMetadata(writer.old).items)
              \/ DictEq(got.items, writer.new)

-----------------------------------------------------------------------------
\* Properties of the session store on a directory found in any condition.

\* The metadata artifact does not hold a mapping with a created_at timestamp.
BadContent(file) ==
    LET metadata == ReadMetadata(file)
    IN  \/ metadata.ty # "dict"
        \/ ~IsIsoFormat(DictGet(metadata.items, PyStr("created_at")))

\* C11: whatever metadata.json holds (missing, not parseable, parseable but
\* not a mapping, a mapping without created_at, a created_at that is not a
\* timestamp) and when a write fails, no operation of the session store
\* raises, and the session is reported as not valid.
C11_SessionFailuresAreSoft ==
    /\ ~last_op.raised
    /\ (BadContent(metadata_file) /\ last_op.op = "describe" => ~last_op.arg.valid)

-----------------------------------------------------------------------------
\* Properties of get_session_info end to end.

\* The last operation saved metadata that json can write and that was created
\* at this instant.
SavedFresh ==
    /\ last_op.op = "save"
    /\ ~json_dump(last_op.arg).raised
    /\ DictGet(last_op.arg, PyStr("created_at")) = PyStr(isoformat(now))

\* C12: get_session_info on a store with no session reports exists = false,
\* expired = true, valid = false; right after a session is created and saved
\* it reports exists = true, expired = false, valid = true, the auth_method
\* the session was created with and an age in minutes; after clear_session
\* it reports exists = false again.
C12_DescribeEndToEnd ==
    /\ ~metadata_file.exists =>
          get_session_info = [exists |-> FALSE, expired |-> TRUE, valid |-> FALSE]
    /\ SavedFresh =>
          /\ get_session_info = [exists |-> TRUE, expired |-> FALSE, valid |-> TRUE]
          /\ InfoDetails(metadata_file, now).auth_method
                = DictGet(last_op.arg, PyStr("auth_method"))
          /\ InfoDetails(metadata_file, now).age_human.unit = "minutos"
    /\ last_op.op = "clear" => ~get_session_info.exists

\* A session created with auth_method "test" and a maximum age of hours has
\* just been saved, and its age reads "0 minutos".
C12_Witness ==
    /\ SavedFresh
    /\ max_session_age = MaxAgeHours
    /\ DictGet(last_op.arg, PyStr("auth_method")) = PyStr("test")
    /\ InfoDetails(metadata_file, now).age_human = [n |-> 0, unit |-> "minutos"]

-----------------------------------------------------------------------------
\* Properties of the session tools.

\* C13: a session is classified Valid only if a login has completed since it
\* was last Absent; preparing the authentication does not make it Valid.
C13_ValidOnlyAfterLogin == classify = "Valid" => logged_in

-----------------------------------------------------------------------------
\* Properties of the certificate manager.

\* The last operation was a load that ended with an exception.
LoadFailed == cred_op.op \in {"load_a1", "load_a3"} /\ cred_op.kind # "ok"

\* What pkcs12 made of the file and password of the last load_a1_certificate.
LastDecoded == Pkcs12Load(BundleAt(cred_op.path), cred_op.password)

\* The last operation was a load_a1_certificate of an existing file that
\* decoded to a certificate.
A1Decoded ==
    /\ cred_op.op = "load_a1"
    /\ BundleAt(cred_op.path).exists
    /\ ~LastDecoded.raised
    /\ LastDecoded.certificate # NoCertificate

\* C14: a load that fails, for whatever reason, leaves the held certificate,
\* private key, intermediate certificates and source path as they were.
C14_FailedLoadKeepsCredential ==
    [][(cred_op'.op \in {"load_a1", "load_a3"} /\ cred_op'.kind # "ok")
         => manager' = manager]_vars

\* A reload has failed because the certificate offered has expired, while
\* another, good certificate is held.
C14_Witness ==
    /\ LoadFailed
    /\ cred_op.kind = "CertificateExpiredError"
    /\ manager.certificate = BundleAt("/certs/b.pfx").certificate
    /\ manager.private_key = "key-b"

\* C15: after a successful load every held field comes from that load: the
\* certificate, the key, the intermediate certificates, the source path and
\* the kind tag.
C15_LoadReplacesEntirely ==
    /\ (cred_op.op = "load_a1" /\ cred_op.kind = "ok") =>
          manager = [cert_type |-> "A1",
                     certificate |-> LastDecoded.certificate,
                     private_key |-> LastDecoded.private_key,
                     additional_certs |-> LastDecoded.additional_certs,
                     cert_path |-> cred_op.path]
    /\ (cred_op.op = "load_a3" /\ cred_op.kind = "ok") =>
          manager = [cert_type |-> "A3",
                     certificate |-> platform.store,
                     private_key |-> NoKey,
                     additional_certs |-> <<>>,
                     cert_path |-> "Windows Certificate Store (thumbprint: auto)"]

C17_WindowErrorsAreDistinct ==
    A1Decoded =>
        /\ LastDecoded.certificate.not_valid_after < now =>
              cred_op.kind = "CertificateExpiredError"
        /\ LastDecoded.certificate.not_valid_before > now =>
              cred_op.kind \notin {"ok", "CertificateError", "CertificateExpiredError",
                                   "CertificatePasswordError", "CertificateNotFoundError"}
        /\ (\/ LastDecoded.certificate.not_valid_after = now
            \/ LastDecoded.certificate.not_valid_before = now) => cred_op.kind = "ok"

\* C18: load_a1_certificate of a path with no file ends with
\* CertificateNotFoundError whatever the password, and nothing is decoded or
\* stored.
C18_MissingFileIsNotFound ==
    [][(cred_op'.op = "load_a1" /\ ~BundleAt(cred_op'.path).exists) =>
          /\ cred_op'.kind = "CertificateNotFoundError"
          /\ manager' = manager]_vars

\* A missing file has been asked for while a certificate is held.
C18_Witness ==
    /\ cred_op.op = "load_a1"
    /\ cred_op.path = "/certs/missing.pfx"
    /\ cred_op.kind = "CertificateNotFoundError"
    /\ manager.certificate # NoCertificate

\* C19: load_a1_certificate of a file whose certificate is within its
\* validity, with the right password, succeeds, and get_certificate_info at
\* that instant gives a window that contains now and is_valid = true.
C19_ValidBundleLoads ==
    ( /\ A1Decoded
      /\ LastDecoded.certificate.not_valid_before <= now
      /\ now <= LastDecoded.certificate.not_valid_after ) =>
        /\ cred_op.kind = "ok"
        /\ ~CertificateInfo(manager, now).raised
        /\ CertificateInfo(manager, now).subject = LastDecoded.certificate.subject
        /\ CertificateInfo(manager, now).not_valid_before <= now
        /\ now <= CertificateInfo(manager, now).not_valid_after
        /\ CertificateInfo(manager, now).is_valid

\* A certificate has been loaded on the last instant of its validity.
C19_Witness ==
    /\ A1Decoded
    /\ cred_op.kind = "ok"
    /\ LastDecoded.certificate.not_valid_after = now
    /\ CertificateInfo(manager, now).is_valid

-----------------------------------------------------------------------------
\* Properties of the query tools.

\* C20: a request is sent with a client certificate only at a time within
\* that certificate's validity, even when the clock has passed
\* not_valid_after since the certificate was loaded.
C20_WindowCheckedAtUse ==
    (last_request.sent /\ last_request.certificate # NoCertificate) =>
        /\ last_request.certificate.not_valid_before <= last_request.at
        /\ last_request.at <= last_request.certificate.not_valid_after

-----------------------------------------------------------------------------
\* Properties of the functions.

\* C21: validate_certificate on a loaded certificate returns is_valid = false
\* outside the validity: once not_valid_after has passed with a message that
\* says expired and quotes the days elapsed since then, counted in whole days
\* rounded up (the negated days_until_expiry), and before not_valid_before
\* with a not-yet-valid message. Within the validity it returns is_valid =
\* true, with a warning when days_until_expiry <= warn_days and a plain
\* confirmation otherwise.
C21_ValidateCertificate ==
    calc.fn = "validate_certificate" =>
        LET c == calc.certificate
            r == calc.result
            elapsed == calc.t - c.not_valid_after
        IN  /\ calc.t > c.not_valid_after =>
                  /\ ~r.is_valid
                  /\ r.message.wording = "Certificado expirado ha N dias"
                  /\ r.message.n = -calc.info.days_until_expiry
                  /\ (r.message.n - 1) * 24 < elapsed
                  /\ elapsed <= r.message.n * 24
            /\ calc.t < c.not_valid_before =>
                  /\ ~r.is_valid
                  /\ r.message.wording = "Certificado ainda nao e valido"
            /\ (c.not_valid_before <= calc.t /\ calc.t <= c.not_valid_after) =>
                  /\ r.is_valid
                  /\ r.message.wording =
                        IF calc.info.days_until_expiry <= calc.warn_days
                        THEN "Certificado expira em N dias"
                        ELSE "Certificado valido por mais N dias"

\* A certificate that expired 25 hours before is validated, and one that
\* expires in exactly warn_days days.
C21_Witness ==
    /\ calc.fn = "validate_certificate"
    /\ \/ calc.t - calc.certificate.not_valid_after = 25
       \/ /\ calc.warn_days = 1
          /\ calc.certificate.not_valid_after - calc.t = 24

\* C22: get_certificate_info gives days_until_expiry as the whole days in
\* not_valid_after - now, rounded down: -1 for a certificate expired by less
\* than a day, 0 for one that expires in less than a day.
C22_DaysUntilExpiryIsFloor ==
    calc.fn = "get_certificate_info" =>
        LET left == calc.certificate.not_valid_after - calc.t
            days == calc.info.days_until_expiry
        IN  /\ days * 24 <= left
            /\ left < (days + 1) * 24
            /\ (-24 < left /\ left < 0) => days = -1
            /\ (0 <= left /\ left < 24) => days = 0

\* A certificate that expired an hour before is described.
C22_Witness ==
    /\ calc.fn = "get_certificate_info"
    /\ calc.certificate.not_valid_after - calc.t = -1
    /\ calc.info.days_until_expiry = -1

-----------------------------------------------------------------------------
\* Properties of the export to temporary files.

\* C23: with nothing loaded, get_certificate_info and
\* get_cert_and_key_for_requests raise CertificateError "Nenhum certificado
\* carregado", create no temporary file and leave the manager as it was.
C23_UnloadedFailsAndChangesNothing ==
    [][(manager.certificate = NoCertificate /\ cred_op'.op \in {"describe", "export"}) =>
          /\ cred_op'.kind = "CertificateError"
          /\ calc'.message = "Nenhum certificado carregado"
          /\ tmpdir' = tmpdir
          /\ manager' = manager]_vars

\* An export has been asked of a manager with nothing loaded, after a load
\* that failed.
C23_Witness ==
    /\ cred_op.op = "export"
    /\ cred_op.kind = "CertificateError"
    /\ manager = NewManager("A1")
    /\ tmpdir = <<>>

\* C24: get_cert_and_key_for_requests succeeds exactly when a certificate
\* and its private key are held; for a certificate loaded without key (from
\* the Windows store) it raises CertificateError "Chave privada nao
\* disponivel" and creates no temporary file.
C24_ExportNeedsKey ==
    [][cred_op'.op = "export" =>
          /\ cred_op'.kind = "ok" <=>
                (manager.certificate # NoCertificate /\ manager.private_key # NoKey)
          /\ (manager.certificate # NoCertificate /\ manager.private_key = NoKey) =>
                /\ cred_op'.kind = "CertificateError"
                /\ calc'.message = "Chave privada nao disponivel"
                /\ tmpdir' = tmpdir]_vars

\* An export has been refused for a certificate of the Windows store.
C24_Witness ==
    /\ cred_op.op = "export"
    /\ calc.message = "Chave privada nao disponivel"
    /\ manager.cert_path = "Windows Certificate Store (thumbprint: auto)"
    /\ manager.certificate = platform.store

\* C25: a second get_cert_and_key_for_requests right after a successful one
\* returns the same two paths and creates no further temporary file.
C25_ExportIsIdempotent ==
    [][(cred_op.op = "export" /\ cred_op.kind = "ok" /\ cred_op'.op = "export") =>
          /\ calc'.paths = calc.paths
          /\ tmpdir' = tmpdir]_vars

\* C26: cleanup_certificate never raises and always leaves cert_files
\* empty, also when a file could not be deleted; with nothing recorded (no
\* export yet, or a cleanup before) it changes no file.
C26_CleanupNeverFails ==
    [][last_op'.op = "cleanup" =>
          /\ ~last_op'.raised
          /\ cert_files' = NoCertFiles
          /\ cert_manager' = cert_manager
          /\ cert_files = NoCertFiles => tmpdir' = tmpdir]_vars

\* A cleanup has returned with the record empty although the certificate
\* file of the only export made could not be deleted.
C26_Witness ==
    /\ last_op.op = "cleanup"
    /\ cert_files = NoCertFiles
    /\ Len(tmpdir) = 2
    /\ tmpdir[1].exists

\* C27: across the calls of the query tools the certificate is exported at
\* most once, and whenever an A1 manager is held its exported files are
\* recorded.
C27_InitializationIsWhole ==
    /\ Len(tmpdir) <= 2
    /\ (cert_manager # NoManager /\ cert_manager.cert_type = "A1") =>
           cert_files # NoCertFiles

\* C28: after any sequence of initialize_certificate, cleanup_certificate
\* and tool calls, every temporary file that exists is one of the pair
\* recorded in cert_files, so that none exists once cert_files is empty.
C28_OnlyRecordedFilesExist ==
    \A i \in 1..Len(tmpdir) :
        tmpdir[i].exists =>
            /\ cert_files # NoCertFiles
            /\ i \in {cert_files[1], cert_files[2]}

\* C29: load_a3_certificate_windows called with a thumbprint raises
\* NotImplementedError on every platform and leaves the manager as it was.
C29_ThumbprintIsNotImplemented ==
    [][(cred_op'.op = "load_a3" /\ cred_op'.thumbprint # "") =>
          /\ cred_op'.kind = "NotImplementedError"
          /\ manager' = manager]_vars

\* C31: of two stores over one session_dir with different session names,
\* the session directories, which are also the browser profile directories,
\* differ, and a save, touch, clear or browser write of one store leaves the
\* artifacts and the classification of the other as they were.
C31_NamesIsolateStores ==
    [][\A i \in {1, 2} :
          (session_names[1] # session_names[2] /\ last_op'.arg = i /\ last_op'.op # "tick") =>
              /\ SessionPath(session_names[1]) # SessionPath(session_names[2])
              /\ user_data_dir(session_names[1]) # user_data_dir(session_names[2])
              /\ ArtifactsOf(3 - i)' = ArtifactsOf(3 - i)
              /\ ClassOf(3 - i)' = ClassOf(3 - i)]_vars

\* The variable holds an integer as int() reads it: one of "7", " 7 ", "+7",
\* "-7", "0", "07", "12", "400", "1_0".
HoldsInteger(env_value) ==
    /\ env_value.set
    /\ env_value.str \in { <<"7">>, <<" ", "7", " ">>, <<"+", "7">>, <<"-", "7">>, <<"0">>,
                           <<"0", "7">>, <<"1", "2">>, <<"4", "0", "0">>, <<"1", "_", "0">> }

IntegerHeld(env_value) ==
    IF env_value.str \in { <<"7">>, <<" ", "7", " ">>, <<"+", "7">>, <<"0", "7">> } THEN 7
    ELSE IF env_value.str = <<"-", "7">> THEN -7
    ELSE IF env_value.str = <<"0">> THEN 0
    ELSE IF env_value.str = <<"1", "2">> THEN 12
    ELSE IF env_value.str = <<"4", "0", "0">> THEN 400
    ELSE 10

DigitsOf(numero) ==
    SelectSeq(numero, LAMBDA c : c \in {"0", "1", "2", "3", "4", "5", "6", "7", "8", "9", "^2"})

\* C33: validar_numero_processo returns the digits of its input, everything
\* else removed, when they are 20, and raises ValueError for any other
\* count; applied to what it returned it returns the same. A digit is what
\* str.isdigit accepts.
C33_ValidarNumeroProcesso ==
    calc.fn = "validar_numero_processo" =>
        /\ calc.result.raised <=> Len(DigitsOf(calc.numero)) # 20
        /\ ~calc.result.raised =>
               /\ calc.result.value = DigitsOf(calc.numero)
               /\ Len(calc.result.value) = 20
               /\ calc.again = calc.result

\* A formatted number of 20 digits has been validated.
C33_Witness ==
    /\ calc.fn = "validar_numero_processo"
    /\ Len(calc.numero) = 40
    /\ ~calc.result.raised
    /\ calc.result.value # calc.numero
    /\ calc.again = calc.result

\* C34: a call of fazer_requisicao_pje that finds the certificate not
\* initialized, or the files of an A1 certificate not available, ends after
\* that one attempt with CertificateError.
C34_CertificateErrorReachesCaller ==
    request.cause = "CertificateError" =>
        /\ request.pc = "done"
        /\ request.attempts = 1
        /\ request.outcome = "CertificateError"

\* C35: a call sends at most RETRY_ATTEMPTS requests and ends; after a 5xx
\* response another attempt follows while attempts remain; after a 4xx
\* response the call returns the error value with that status at once.
C35_BoundedRetry ==
    /\ [](request.sent <= request.stop /\ request.attempts <= request.stop)
    /\ [][request'.attempts = request.attempts + 1 =>
              /\ (400 <= request'.status /\ request'.status < 500) =>
                     /\ request'.pc = "done"
                     /\ request'.outcome = "error"
              /\ (500 <= request'.status /\ request'.status < 600) =>
                     IF request'.attempts < request.stop
                     THEN request'.pc = "attempting"
                     ELSE request'.pc = "done" /\ request'.outcome = "RetryError"]_vars
    /\ (request.pc = "attempting") ~> (request.pc = "done")

\* A call has ended after a 5xx response to the last of three requests.
C35_Witness ==
    /\ request.pc = "done"
    /\ request.stop = 3
    /\ request.sent = 3
    /\ request.status = 500
    /\ request.outcome = "RetryError"

\* C36: after any calls of the tools, of initialize_certificate and of
\* cleanup_certificate, a cert_manager of type A1 is never held without its
\* exported files being recorded in cert_files.
C36_ManagerHasItsFiles ==
    cert_manager.cert_type = "A1" => cert_files # NoCertFiles

\* C37: when a clear_session has completed between the two steps of an
\* update_last_used, then after the second step the metadata file is absent
\* and the session is classified Absent.
C37_TouchDoesNotUndoClear ==
    [][(toucher.pc = "read" /\ toucher'.pc = "done" /\ last_op.op = "clear") =>
          /\ metadata_file' = NoFile
          /\ classify' = "Absent"]_vars

\* C38: when the metadata of a new session has been saved between the two
\* steps of an update_last_used, then after the second step the stored
\* created_at and auth_method are those of the new session.
C38_TouchKeepsNewLogin ==
    [][(/\ toucher.pc = "read"
        /\ toucher'.pc = "done"
        /\ last_op.op = "save"
        /\ ReadMetadata(metadata_file) = Metadata(last_op.arg)) =>
          /\ DictGet(ReadMetadata(metadata_file').items, PyStr("created_at")) =
                 DictGet(last_op.arg, PyStr("created_at"))
          /\ DictGet(ReadMetadata(metadata_file').items, PyStr("auth_method")) =
                 DictGet(last_op.arg, PyStr("auth_method"))]_vars

\* C39: every load that succeeds, of a PFX file or from the Windows
\* certificate store, leaves a certificate the clock is within the validity
\* of.
C39_LoadedWithinValidity ==
    [][(cred_op'.op \in {"load_a1", "load_a3"} /\ cred_op'.kind = "ok") =>
          /\ manager'.certificate.not_valid_before <= now
          /\ now <= manager'.certificate.not_valid_after]_vars

\* C40: in the metadata create_session_metadata builds, created_at and
\* last_used are the time of creation, auth_method is the method given and
\* session_name is the store's name, whatever the additional data holds.
C40_FixedFieldsAreTheStores ==
    last_op.op = "save" =>
        /\ \E t \in 0..now :
              /\ DictGet(last_op.arg, PyStr("created_at")) = PyStr(isoformat(t))
              /\ DictGet(last_op.arg, PyStr("last_used")) = PyStr(isoformat(t))
        /\ DictGet(last_op.arg, PyStr("auth_method")) \in {PyStr("safe_id"), PyStr("test")}
        /\ DictGet(last_op.arg, PyStr("session_name")) = session_name

====
